---- MODULE Spec2Model ----
(***************************************************************************)
(* PhotoSort: the bracket grouper of main(), the dispatch of files to      *)
(* Analyzer::run_file (inline or through the thread pool), the rendering   *)
(* of the target path from the format string, the duplicate loop and       *)
(* file_action.                                                            *)
(*                                                                         *)
(* Text is a sequence of one-character strings; a path below the target    *)
(* directory is the sequence of its components; a discovered file is       *)
(* identified by its position in `files`.                                  *)
(***************************************************************************)
EXTENDS Integers, Sequences, FiniteSets, TLC

VARIABLES
    settings,               \* AnalyzerSettings + bracket_mode + threads
    files,                  \* the discovered files, in traversal order
    fs,                     \* paths that exist below the target directory
    fs_initial,             \* the paths that existed when main() began
    pc,                     \* position of main(): "loop", "collect", "done"
    i,                      \* position of the for loop over files (1-based)
    bracketed_queue,        \* VecDeque<(PathBuf, BracketEXIFInformation)>
    bracket_group_index,    \* usize
    dispatched,             \* the process_file calls made so far, in order
    pending,                \* process_file calls whose run_file has not begun
    exec,                   \* per thread: position inside run_file
    outcome,                \* per process_file call: result of run_file
    sent,                   \* completion signals in the channel
    count,                  \* completion signals received by main()
    log,                    \* the error! messages logged so far
    render,                 \* a call of replace_filepath_parts, step by step
    folder,                 \* a call of Analyzer::run_files_in_folder, step by step
    act                     \* a call of action::file_action, step by step

vars == <<settings, files, fs, fs_initial, pc, i, bracketed_queue, bracket_group_index,
          dispatched, pending, exec, outcome, sent, count, log, render, folder, act>>

(***************************************************************************)
(* Bounds of the model.                                                    *)
(***************************************************************************)
MaxFiles == 3        \* longest stream of the grouper family
MaxIndex == 2        \* largest bracket index of a file
MaxJobs == 2         \* longest stream of the duplicate family
MaxThreads == 2      \* largest thread pool
MaxExisting == 2     \* pre-existing colliding targets per name

\* Option::None of a text, of a counter, of a BracketInfo and of a date
None == <<"None">>
NoCounter == -1
NoBracket == [some |-> FALSE]
NoDate == [some |-> FALSE]

Ok(v) == [ok |-> TRUE, val |-> v]
Err == [ok |-> FALSE, val |-> <<>>]

\* the error of replace_filepath_parts: its message and the command it names
Failure(message, command) ==
    [ok |-> FALSE, val |-> <<>>, error |-> [message |-> message, command |-> command]]

(***************************************************************************)
(* Text helpers.                                                           *)
(***************************************************************************)
Digits == <<"0", "1", "2", "3", "4", "5", "6", "7", "8", "9">>

\* u32::to_string
RECURSIVE to_string(_)
to_string(n) ==
    IF n < 10 THEN <<Digits[n + 1]>>
    ELSE to_string(n \div 10) \o <<Digits[(n % 10) + 1]>>

\* position of the first ch in s at or after k, 0 when there is none
RECURSIVE IndexFrom(_, _, _)
IndexFrom(s, ch, k) ==
    IF k > Len(s) THEN 0
    ELSE IF s[k] = ch THEN k
    ELSE IndexFrom(s, ch, k + 1)

Tail_(s, k) == SubSeq(s, k, Len(s))

LowerCase == <<"a", "b", "c", "d", "e", "f", "g", "h", "i", "j", "k", "l", "m",
               "n", "o", "p", "q", "r", "s", "t", "u", "v", "w", "x", "y", "z">>
UpperCase == <<"A", "B", "C", "D", "E", "F", "G", "H", "I", "J", "K", "L", "M",
               "N", "O", "P", "Q", "R", "S", "T", "U", "V", "W", "X", "Y", "Z">>

MapChar(c, from, to) ==
    IF \E k \in 1..Len(from) : from[k] = c
    THEN to[CHOOSE k \in 1..Len(from) : from[k] = c]
    ELSE c

to_lowercase(s) == [k \in 1..Len(s) |-> MapChar(s[k], UpperCase, LowerCase)]
to_uppercase(s) == [k \in 1..Len(s) |-> MapChar(s[k], LowerCase, UpperCase)]

\* Path::with_extension("").file_name(): the name up to its last '.'
RECURSIVE LastIndex(_, _, _)
LastIndex(s, ch, k) ==
    IF k = 0 THEN 0
    ELSE IF s[k] = ch THEN k
    ELSE LastIndex(s, ch, k - 1)

file_stem(name) ==
    LET dot == LastIndex(name, ".", Len(name))
    IN  IF dot <= 1 THEN name ELSE SubSeq(name, 1, dot - 1)

(***************************************************************************)
(* The name formatters (analysis/name_formatters/*.rs).  A command is      *)
(* split at its first '?' the way the formatters' regexes split it:        *)
(* head, and the argument after the '?' (None without a '?').              *)
(***************************************************************************)
CmdHead(cmd) ==
    LET q == IndexFrom(cmd, "?", 1)
    IN  IF q = 0 THEN cmd ELSE SubSeq(cmd, 1, q - 1)

CmdArg(cmd) ==
    LET q == IndexFrom(cmd, "?", 1)
    IN  IF q = 0 THEN None ELSE Tail_(cmd, q + 1)

\* ^(name|n)$
NAME_FORMAT(cmd) == cmd \in {<<"n", "a", "m", "e">>, <<"n">>}

\* ^(dup|duplicate)$
DUPLICATE_FORMAT(cmd) ==
    cmd \in {<<"d", "u", "p">>, <<"d", "u", "p", "l", "i", "c", "a", "t", "e">>}

\* ^(date|d)(\?(.+))?$
DATE_FORMAT(cmd) ==
    /\ CmdHead(cmd) \in {<<"d", "a", "t", "e">>, <<"d">>}
    /\ CmdArg(cmd) # None => Len(CmdArg(cmd)) >= 1

\* ^(ftype|type|t)(\?(([^,\n]*)(,([^,\n]*))?))?$
FILE_TYPE_FORMAT(cmd) ==
    /\ CmdHead(cmd) \in {<<"f", "t", "y", "p", "e">>, <<"t", "y", "p", "e">>, <<"t">>}
    /\ CmdArg(cmd) # None =>
          LET a == CmdArg(cmd)
              c == IndexFrom(a, ",", 1)
          IN  c # 0 => IndexFrom(a, ",", c + 1) = 0

\* ^(ext|extension)(\?(.+))?$
EXTENSION_FORMAT(cmd) ==
    /\ CmdHead(cmd) \in {<<"e", "x", "t">>,
                         <<"e", "x", "t", "e", "n", "s", "i", "o", "n">>}
    /\ CmdArg(cmd) # None => Len(CmdArg(cmd)) >= 1

\* ^(bracket|bracketed|b)(\?([^\n]*))?$
BRACKET_TYPE_FORMAT(cmd) ==
    CmdHead(cmd) \in {<<"b", "r", "a", "c", "k", "e", "t">>,
                      <<"b", "r", "a", "c", "k", "e", "t", "e", "d">>, <<"b">>}

\* a name formatter that appends to the cleaned name
FormatName_Appends(cmd, info) == Ok(info.cleaned_name \o <<"_">>)

FormatName(cmd, info) == Ok(info.cleaned_name)

FormatDuplicate(cmd, info) ==
    IF info.duplicate_counter = NoCounter THEN Ok(<<>>)
    ELSE Ok(to_string(info.duplicate_counter))

\* NaiveDateTime::format for the specifiers %Y %m %d %H %M %S
RECURSIVE Strftime(_, _)
Strftime(date, fmt) ==
    IF fmt = <<>> THEN <<>>
    ELSE IF fmt[1] = "%" /\ Len(fmt) >= 2 /\ fmt[2] \in DOMAIN date
         THEN date[fmt[2]] \o Strftime(date, Tail_(fmt, 3))
         ELSE <<fmt[1]>> \o Strftime(date, Tail_(fmt, 2))

FormatDate(cmd, info) ==
    LET format_string == IF CmdArg(cmd) = None THEN info.date_default_format
                         ELSE CmdArg(cmd)
    IN  IF ~info.date.some THEN Ok(<<"N", "O", "D", "A", "T", "E">>)
        ELSE Ok(Strftime(info.date, format_string))

FormatFileType(cmd, info) ==
    LET a == CmdArg(cmd)
        c == IF a = None THEN 0 ELSE IndexFrom(a, ",", 1)
        regex_image_name == IF a = None THEN None
                            ELSE IF c = 0 THEN a ELSE SubSeq(a, 1, c - 1)
        regex_video_name == IF a = None \/ c = 0 THEN None ELSE Tail_(a, c + 1)
    IN  CASE info.file_type = "Image" ->
                Ok(IF regex_image_name = None THEN <<"I", "M", "G">> ELSE regex_image_name)
          [] info.file_type = "Video" ->
                Ok(IF regex_video_name = None THEN <<"M", "O", "V">> ELSE regex_video_name)
          [] OTHER -> Ok(<<>>)

FormatExtension(cmd, info) ==
    LET option == IF CmdArg(cmd) = None THEN <<"c", "o", "p", "y">> ELSE CmdArg(cmd)
    IN  IF option \in {<<"l", "o", "w", "e", "r">>, <<"l", "o", "w">>,
                       <<"l", "o", "w", "e", "r", "c", "a", "s", "e">>, <<"l">>}
        THEN Ok(to_lowercase(info.extension))
        ELSE IF option \in {<<"u", "p", "p", "e", "r">>, <<"u", "p">>,
                            <<"u", "p", "p", "e", "r", "c", "a", "s", "e">>, <<"u">>}
        THEN Ok(to_uppercase(info.extension))
        ELSE IF option \in {<<"c", "o", "p", "y">>, <<"n", "o", "r", "m", "a", "l">>,
                            <<"s", "t", "a", "n", "d", "a", "r", "d">>,
                            <<"p", "a", "s", "s">>, <<"p">>}
        THEN Ok(info.extension)
        ELSE Err

\* a bracket formatter that fails on an invocation without bracket info
BracketedFormat_FailsWithoutInfo(cmd, info) ==
    IF info.bracket_info.some THEN Ok(<<>>) ELSE Err

BracketedFormat(cmd, info) ==
    LET a == CmdArg(cmd)
        b == info.bracket_info
    IN  IF a = None THEN Err
        ELSE IF a \in {<<"s", "e", "q">>, <<"i", "n", "d", "e", "x">>}
        THEN Ok(IF ~b.some THEN <<>> ELSE to_string(b.sequence_number))
        ELSE IF a \in {<<"n", "a", "m", "e">>, <<"f", "i", "r", "s", "t">>,
                       <<"n", "a", "m", "e", "_", "f", "i", "r", "s", "t">>}
        THEN Ok(IF ~b.some THEN <<>> ELSE file_stem(files[b.first].file_name))
        ELSE IF a \in {<<"l", "a", "s", "t">>,
                       <<"n", "a", "m", "e", "_", "l", "a", "s", "t">>}
        THEN Ok(IF ~b.some THEN <<>> ELSE file_stem(files[b.last].file_name))
        ELSE IF a \in {<<"l", "e", "n">>, <<"l", "e", "n", "g", "t", "h">>}
        THEN Ok(IF ~b.some THEN <<>> ELSE to_string(b.sequence_length))
        ELSE IF a \in {<<"g", "r", "o", "u", "p">>, <<"g", "r", "p">>, <<"n", "u", "m">>}
        THEN Ok(IF ~b.some THEN <<>> ELSE to_string(b.group_index))
        ELSE Err

\* the formatters in the order main() registers them
main_formatters == <<"FormatName", "FormatDuplicate", "FormatDate",
                     "FormatFileType", "FormatExtension", "BracketedFormat">>

\* Analyzer::name_formatters, in the order of the add_formatter calls
name_formatters == settings.name_formatters

\* two implementations of NameFormatter a caller of add_formatter may
\* register, both with the pattern of the name formatter: "ShadowingName"
\* returns the text X, "FailingName" returns an error
ShadowingText == <<"X">>

argument_template(formatter, cmd) ==
    CASE formatter = "FormatName" -> NAME_FORMAT(cmd)
      [] formatter \in {"ShadowingName", "FailingName"} -> NAME_FORMAT(cmd)
      [] formatter = "FormatDuplicate" -> DUPLICATE_FORMAT(cmd)
      [] formatter = "FormatDate" -> DATE_FORMAT(cmd)
      [] formatter = "FormatFileType" -> FILE_TYPE_FORMAT(cmd)
      [] formatter = "FormatExtension" -> EXTENSION_FORMAT(cmd)
      [] formatter = "BracketedFormat" -> BRACKET_TYPE_FORMAT(cmd)

replacement_text(formatter, cmd, info) ==
    CASE formatter = "FormatName" -> FormatName(cmd, info)
      [] formatter = "ShadowingName" -> Ok(ShadowingText)
      [] formatter = "FailingName" -> Err
      [] formatter = "FormatDuplicate" -> FormatDuplicate(cmd, info)
      [] formatter = "FormatDate" -> FormatDate(cmd, info)
      [] formatter = "FormatFileType" -> FormatFileType(cmd, info)
      [] formatter = "FormatExtension" -> FormatExtension(cmd, info)
      [] formatter = "BracketedFormat" -> BracketedFormat(cmd, info)

(***************************************************************************)
(* Analyzer::replace_filepath_parts: every {...} block of format_string is *)
(* replaced by the text of the first formatter that accepts its command.   *)
(***************************************************************************)
\* a prefix that is put before an empty replacement text too
prefix_substitution_Always(command_modifier, command_substitution) ==
    command_modifier \o command_substitution

\* if !command_substitution.is_empty() && !command_modifier.is_empty()
prefix_substitution(command_modifier, command_substitution) ==
    IF command_substitution # <<>> /\ command_modifier # <<>>
    THEN command_modifier \o command_substitution
    ELSE command_substitution

\* the loop over the formatters, from formatter k on
RECURSIVE FormatCommand(_, _, _, _)
FormatCommand(k, command_modifier, actual_command, info) ==
    IF k > Len(name_formatters)
    THEN Failure("There exists no formatter for the format command", actual_command)
    ELSE IF argument_template(name_formatters[k], actual_command)
    THEN LET r == replacement_text(name_formatters[k], actual_command, info)
         IN  IF ~r.ok
             THEN Failure("Failed to format the file name with the given format string",
                          actual_command)
             ELSE Ok(prefix_substitution(command_modifier, r.val))
    ELSE FormatCommand(k + 1, command_modifier, actual_command, info)

\* the loop over the {...} blocks: final_string holds the literals and the
\* replacement texts pushed so far
RECURSIVE ReplaceFrom(_, _, _, _)
ReplaceFrom(format_string, current_string_index, final_string, info) ==
    LET start == IndexFrom(format_string, "{", current_string_index)
        end == IF start = 0 THEN 0 ELSE IndexFrom(format_string, "}", start + 1)
    IN  IF end = 0
        THEN Ok(final_string \o Tail_(format_string, current_string_index))
        ELSE LET inner_command_string == SubSeq(format_string, start + 1, end - 1)
                 colon == IndexFrom(inner_command_string, ":", 1)
                 command_modifier ==
                     IF colon = 0 THEN <<>>
                     ELSE SubSeq(inner_command_string, 1, colon - 1)
                 actual_command ==
                     IF colon = 0 THEN inner_command_string
                     ELSE Tail_(inner_command_string, colon + 1)
                 sub == FormatCommand(1, command_modifier, actual_command, info)
             IN  IF ~sub.ok THEN sub
                 ELSE ReplaceFrom(format_string, end + 1,
                          final_string
                          \o SubSeq(format_string, current_string_index, start - 1)
                          \o sub.val,
                          info)

replace_filepath_parts(format_string, info) ==
    ReplaceFrom(format_string, 1, <<>>, info)

(***************************************************************************)
(* replace_filepath_parts step by step: `render` holds its locals.  The    *)
(* parts of final_string keep what they are (Literal or Command), and      *)
(* `invoked` lists the formatters whose replacement_text was called.       *)
(***************************************************************************)
\* RE_DETECT_NAME_FORMAT_COMMAND.captures_iter: the next match of
\* \{([^\}]*)\} at or after position k; start = 0 when there is none
next_capture(format_string, k) ==
    LET start == IndexFrom(format_string, "{", k)
        end == IF start = 0 THEN 0 ELSE IndexFrom(format_string, "}", start + 1)
    IN  IF end = 0 THEN [start |-> 0, end |-> 0] ELSE [start |-> start, end |-> end]

\* RE_COMMAND_SPLIT ^(([^:]*):)?(.*)$, group 2: the prefix
command_modifier_of(inner_command_string) ==
    LET colon == IndexFrom(inner_command_string, ":", 1)
    IN  IF colon = 0 THEN <<>> ELSE SubSeq(inner_command_string, 1, colon - 1)

\* RE_COMMAND_SPLIT, group 3: the command
actual_command_of(inner_command_string) ==
    LET colon == IndexFrom(inner_command_string, ":", 1)
    IN  IF colon = 0 THEN inner_command_string
        ELSE Tail_(inner_command_string, colon + 1)

Literal(str) == [command |-> FALSE, text |-> str]
Command(str) == [command |-> TRUE, text |-> str]

\* a literal that loses its first character
literal_between_Short(format_string, from, to) ==
    SubSeq(format_string, from + 1, to)

\* format_string[from..to], the literal before a match or after the last
literal_between(format_string, from, to) == SubSeq(format_string, from, to)

\* final_string.push(FormatString::Literal(..)) when the range is not empty
push_literal(final_string, format_string, from, to) ==
    IF to >= from
    THEN Append(final_string, Literal(literal_between(format_string, from, to)))
    ELSE final_string

\* .map(|v| v.formatted_string()).collect::<Vec<_>>().join("")
RECURSIVE join(_)
join(final_string) ==
    IF final_string = <<>> THEN <<>>
    ELSE Head(final_string).text \o join(Tail(final_string))

\* a matching formatter after which the loop over the formatters goes on
on_match_NoBreak(r, command_substitution) ==
    [r EXCEPT !.final_string = Append(r.final_string, Command(command_substitution)),
              !.k = r.k + 1]

\* found_command = true; final_string.push(Command(..)); break;
\* current_string_index = end
on_match(r, command_substitution) ==
    [r EXCEPT !.final_string = Append(r.final_string, Command(command_substitution)),
              !.current_string_index = r.end + 1,
              !.pc = "capture"]

\* a failing formatter after which the next formatter is tried
on_error_TriesNext(r) == [r EXCEPT !.k = r.k + 1]

\* Err(err) => return Err(anyhow!("Failed to format the file name ..."))
on_error(r) ==
    [r EXCEPT !.pc = "done",
              !.result = Failure("Failed to format the file name with the given format string",
                                 r.actual_command)]

\* a block without a formatter that is copied through as a literal
on_not_found_Passthrough(r) ==
    [r EXCEPT !.final_string = Append(r.final_string,
                  Literal(SubSeq(r.format_string, r.start, r.end))),
              !.current_string_index = r.end + 1,
              !.pc = "capture"]

\* if !found_command { return Err(anyhow!("... There exists no formatter ...")) }
on_not_found(r) ==
    [r EXCEPT !.pc = "done",
              !.result = Failure("There exists no formatter for the format command",
                                 r.actual_command)]

main_vars == <<settings, files, fs, fs_initial, pc, i, bracketed_queue, bracket_group_index,
               dispatched, pending, exec, outcome, sent, count, log>>

\* for capture in detect_commands: the literal before the match is pushed
\* and the block is split into its prefix and its command
RenderCapture ==
    /\ render.pc = "capture"
    /\ LET c == next_capture(render.format_string, render.current_string_index)
           inner_command_string == SubSeq(render.format_string, c.start + 1, c.end - 1)
       IN  /\ c.start # 0
           /\ render' = [render EXCEPT
                  !.final_string = push_literal(render.final_string, render.format_string,
                                                render.current_string_index, c.start - 1),
                  !.start = c.start,
                  !.end = c.end,
                  !.command_modifier = command_modifier_of(inner_command_string),
                  !.actual_command = actual_command_of(inner_command_string),
                  !.k = 1,
                  !.pc = "formatter"]
    /\ UNCHANGED <<main_vars, folder, act>>

\* for formatter in &self.name_formatters: one formatter, or the end of the
\* loop without a match
RenderFormatter ==
    /\ render.pc = "formatter"
    /\ IF render.k > Len(name_formatters)
       THEN render' = on_not_found(render)
       ELSE IF argument_template(name_formatters[render.k], render.actual_command)
       THEN LET called == [render EXCEPT !.invoked =
                              Append(render.invoked,
                                     [formatter |-> name_formatters[render.k],
                                      command |-> render.actual_command])]
                t == replacement_text(name_formatters[render.k], render.actual_command,
                                      render.info)
            IN  IF t.ok
                THEN render' = on_match(called,
                                        prefix_substitution(render.command_modifier, t.val))
                ELSE render' = on_error(called)
       ELSE render' = [render EXCEPT !.k = render.k + 1]
    /\ UNCHANGED <<main_vars, folder, act>>

\* after the last match: the rest of format_string is pushed as a literal
\* and the parts are joined
RenderFinish ==
    /\ render.pc = "capture"
    /\ next_capture(render.format_string, render.current_string_index).start = 0
    /\ LET final_string == push_literal(render.final_string, render.format_string,
                                        render.current_string_index,
                                        Len(render.format_string))
       IN  render' = [render EXCEPT !.final_string = final_string,
                                    !.pc = "done",
                                    !.result = Ok(join(final_string))]
    /\ UNCHANGED <<main_vars, folder, act>>

(***************************************************************************)
(* Analyzer::run_file: the invocation info of a file, the target path      *)
(* rendered from the selected format string, file_action.                  *)
(***************************************************************************)
\* str::split
RECURSIVE Split(_, _)
Split(s, ch) ==
    LET k == IndexFrom(s, ch, 1)
    IN  IF k = 0 THEN <<s>>
        ELSE <<SubSeq(s, 1, k - 1)>> \o Split(Tail_(s, k + 1), ch)

\* String::replace(ch, "")
RECURSIVE Remove(_, _)
Remove(s, ch) ==
    IF s = <<>> THEN <<>>
    ELSE IF s[1] = ch THEN Remove(Tail(s), ch)
    ELSE <<s[1]>> \o Remove(Tail(s), ch)

\* Path::extension of a file name
extension(file_name) ==
    LET dot == LastIndex(file_name, ".", Len(file_name))
    IN  IF dot <= 1 THEN None ELSE Tail_(file_name, dot + 1)

is_valid_photo_extension(ext) ==
    IF ext = None THEN FALSE
    ELSE \E k \in 1..Len(settings.extensions) :
            to_lowercase(ext) = settings.extensions[k]

is_valid_video_extension(ext) ==
    IF ext = None THEN FALSE
    ELSE \E k \in 1..Len(settings.video_extensions) :
            to_lowercase(ext) = settings.video_extensions[k]

file_type(file_name) ==
    IF is_valid_video_extension(extension(file_name)) THEN "Video"
    ELSE IF is_valid_photo_extension(extension(file_name)) THEN "Image"
    ELSE "None"

is_valid_extension(ext) == is_valid_photo_extension(ext) \/ is_valid_video_extension(ext)

\* s begins with the text w
StartsWith(s, w) == Len(s) >= Len(w) /\ SubSeq(s, 1, Len(w)) = w

\* str::replace(pattern, ""): every occurrence, from the left
RECURSIVE RemoveAll(_, _)
RemoveAll(s, pattern) ==
    IF s = <<>> \/ pattern = <<>> THEN s
    ELSE IF StartsWith(s, pattern) THEN RemoveAll(Tail_(s, Len(pattern) + 1), pattern)
    ELSE <<s[1]>> \o RemoveAll(Tail(s), pattern)

\* Regex::replace(text, ""): the leftmost match of one of the words
RECURSIVE RemoveFirst(_, _)
RemoveFirst(s, words) ==
    IF s = <<>> THEN s
    ELSE IF \E w \in words : StartsWith(s, w)
    THEN Tail_(s, Len(CHOOSE w \in words : StartsWith(s, w)) + 1)
    ELSE <<s[1]>> \o RemoveFirst(Tail(s), words)

Alphanumeric ==
    {LowerCase[k] : k \in 1..Len(LowerCase)} \cup {UpperCase[k] : k \in 1..Len(UpperCase)}
    \cup {Digits[k] : k \in 1..Len(Digits)}

\* (NO_?DATE|no_?date)
NoDateWords ==
    {<<"N", "O", "_", "D", "A", "T", "E">>, <<"N", "O", "D", "A", "T", "E">>,
     <<"n", "o", "_", "d", "a", "t", "e">>, <<"n", "o", "d", "a", "t", "e">>}

\* (MOV|VID|mov|vid|IMG|img|NO_?DATE|no_?date)
PrefixWords ==
    {<<"M", "O", "V">>, <<"V", "I", "D">>, <<"m", "o", "v">>, <<"v", "i", "d">>,
     <<"I", "M", "G">>, <<"i", "m", "g">>} \cup NoDateWords

\* ((MOV|..|no_?date)?[-_]*)* at the beginning of a name, greedy
RECURSIVE StripPrefixes(_)
StripPrefixes(s) ==
    IF s = <<>> THEN s
    ELSE IF \E w \in PrefixWords : StartsWith(s, w)
    THEN StripPrefixes(Tail_(s, Len(CHOOSE w \in PrefixWords : StartsWith(s, w)) + 1))
    ELSE IF s[1] \in {"-", "_"} THEN StripPrefixes(Tail(s))
    ELSE s

\* (.*?)[-_]*? before the extension: the name without its last '-' and '_'
RECURSIVE StripSeparators(_)
StripSeparators(s) ==
    IF s # <<>> /\ s[Len(s)] \in {"-", "_"}
    THEN StripSeparators(SubSeq(s, 1, Len(s) - 1))
    ELSE s

\* name::clean_image_name: RE_IMAGE_NAME matches a name that ends in a '.'
\* and letters or digits; its third group without NO_DATE is the result.
\* A name it does not match has no extension RE_REMOVE_EXT could remove.
clean_image_name(name) ==
    LET dot == LastIndex(name, ".", Len(name))
    IN  IF dot = 0 \/ dot = Len(name)
           \/ \E k \in (dot + 1)..Len(name) : name[k] \notin Alphanumeric
        THEN name
        ELSE RemoveFirst(StripSeparators(StripPrefixes(SubSeq(name, 1, dot - 1))),
                         NoDateWords)

\* analysis::get_name_time: the first capture of a transformer whose
\* transform succeeds gives the date, and the name without the matched
\* text; a transform that fails is logged and the next capture is tried
RECURSIVE get_name_time(_, _)
get_name_time(name, captures) ==
    IF captures = <<>> THEN [ok |-> TRUE, val |-> NoDate, logged |-> {}]
    ELSE IF Head(captures).ok
    THEN [ok |-> TRUE,
          val |-> [some |-> TRUE, date |-> Head(captures).date,
                   name |-> RemoveAll(name, Head(captures).matched)],
          logged |-> {}]
    ELSE LET rest == get_name_time(name, Tail(captures))
         IN  [rest EXCEPT !.logged = rest.logged \cup {"Error"}]

\* Analyzer::analyze_name
analyze_name(file) ==
    LET result == get_name_time(file.file_name, file.name_time)
    IN  [ok |-> TRUE,
         val |-> IF result.val.some
                 THEN [date |-> result.val.date, name |-> result.val.name]
                 ELSE [date |-> NoDate, name |-> file.file_name],
         logged |-> result.logged]

\* Analyzer::analyze_exif: the EXIF date of a photo, the metadata of a video
analyze_exif(file) ==
    LET photo == is_valid_photo_extension(extension(file.file_name))
        video == is_valid_video_extension(extension(file.file_name))
    IN  IF video /\ photo THEN Err
        ELSE IF photo \/ video THEN file.exif_time
        ELSE Err

\* the fallback of AnalysisType::ExifThenName that ignores the EXIF date
first_date_ExifThenName_NameFirst(exif_result, name_result) ==
    IF name_result.val.date.some THEN name_result.val.date ELSE exif_result

\* AnalysisType::ExifThenName: the EXIF date if there is one
first_date_ExifThenName(exif_result, name_result) ==
    IF exif_result.some THEN exif_result ELSE name_result.val.date

\* Analyzer::analyze: the date and the name of a file, or an error; `logged`
\* holds what it logs on the way
analyze(file) ==
    LET name_result == analyze_name(file)
        exif == analyze_exif(file)
        Analysis(date, name, logged) ==
            [ok |-> TRUE, val |-> [date |-> date, name |-> name], logged |-> logged]
        Error(logged) == [ok |-> FALSE, val |-> <<>>, logged |-> logged]
    IN  IF ~is_valid_extension(extension(file.file_name))
        THEN Error({"Skipping file with invalid extension"})
        ELSE CASE settings.analysis_type = "OnlyExif" ->
                    IF ~exif.ok THEN Error({})
                    ELSE Analysis(exif.val, name_result.val.name, name_result.logged)
               [] settings.analysis_type = "OnlyName" ->
                    Analysis(name_result.val.date, name_result.val.name,
                             name_result.logged)
               [] settings.analysis_type = "ExifThenName" ->
                    LET exif_result == IF exif.ok THEN exif.val ELSE NoDate
                        logged == IF exif.ok THEN {} ELSE {"Error analyzing Exif data"}
                    IN  Analysis(first_date_ExifThenName(exif_result, name_result),
                                 name_result.val.name, logged \cup name_result.logged)
               [] settings.analysis_type = "NameThenExif" ->
                    IF name_result.val.date.some
                    THEN Analysis(name_result.val.date, name_result.val.name,
                                  name_result.logged)
                    ELSE IF ~exif.ok THEN Error(name_result.logged)
                    ELSE Analysis(exif.val, name_result.val.name, name_result.logged)

\* run_file(path, is_unknown_file): main() passes no such flag
is_unknown_file(job) == "is_unknown_file" \in DOMAIN job /\ job.is_unknown_file

\* the NameFormatterInvocationInfo run_file builds for a file: no analysis
\* for an unknown file, whose name is its file stem
file_name_info(job, duplicate_counter) ==
    LET f == files[job.file]
        date == IF is_unknown_file(job) THEN NoDate ELSE analyze(f).val.date
    IN  [date |-> date,
         date_string |-> IF date.some THEN Strftime(date, settings.date_format)
                         ELSE <<"N", "O", "D", "A", "T", "E">>,
         date_default_format |-> settings.date_format,
         file_type |-> file_type(f.file_name),
         cleaned_name |-> IF is_unknown_file(job) THEN file_stem(f.file_name)
                          ELSE clean_image_name(analyze(f).val.name),
         duplicate_counter |-> duplicate_counter,
         extension |-> IF extension(f.file_name) = None THEN <<>>
                       ELSE extension(f.file_name),
         bracket_info |-> job.bracket_info,
         is_unknown_file |-> is_unknown_file(job)]

\* the bracketed format string takes precedence for a file with bracket info
bracketed_format_string(info) ==
    IF info.bracket_info.some THEN settings.bracketed_file_format ELSE None

\* a selection that uses the dated format for an unknown file
format_string_of_UnknownAsDated(info) ==
    IF bracketed_format_string(info) # None THEN bracketed_format_string(info)
    ELSE IF info.is_unknown_file THEN settings.file_format
    ELSE IF info.date.some THEN settings.file_format
    ELSE settings.nodate_file_format

\* the format string of a file; None (an error of new_file_path) for an
\* unknown file without an unknown format
format_string_of(info) ==
    IF bracketed_format_string(info) # None THEN bracketed_format_string(info)
    ELSE IF info.is_unknown_file THEN settings.unknown_file_format
    ELSE IF info.date.some THEN settings.file_format
    ELSE settings.nodate_file_format

\* target_path.push(component) for every rendered component but ".."
RECURSIVE PushComponents_KeepsDotDot(_, _)
RECURSIVE PushComponents(_, _)
PushComponents_KeepsDotDot(target_path, components) ==
    IF components = <<>> THEN target_path
    ELSE LET component == Remove(Remove(Head(components), "/"), "\\")
         IN  PushComponents_KeepsDotDot(
                 IF component # <<>> THEN Append(target_path, component)
                 ELSE target_path,
                 Tail(components))

PushComponents(target_path, components) ==
    IF components = <<>> THEN target_path
    ELSE LET component == Remove(Remove(Head(components), "/"), "\\")
         IN  PushComponents(
                 IF component # <<".", ".">> /\ component # <<>>
                 THEN Append(target_path, component) ELSE target_path,
                 Tail(components))

new_file_path(info) ==
    LET path_split == [k \in DOMAIN Split(format_string_of(info), "/") |->
                          replace_filepath_parts(Split(format_string_of(info), "/")[k], info)]
    IN  IF format_string_of(info) = None THEN Err
        ELSE IF \E k \in DOMAIN path_split : ~path_split[k].ok THEN Err
        ELSE Ok(PushComponents(<<>>, [k \in DOMAIN path_split |-> path_split[k].val]))

\* Path::exists below the target directory, on the paths `tree`
exists(tree, path) == path \in tree

parent(path) == SubSeq(path, 1, Len(path) - 1)

\* fs::create_dir_all
create_dir_all(path) == {SubSeq(path, 1, k) : k \in 0..Len(path)}

error_file_exists_Never(tree, target) == Ok(<<>>)

error_file_exists(tree, target) == IF exists(tree, target) THEN Err ELSE Ok(<<>>)

\* file_action after error_file_exists: the parent check, the mkdir and the
\* action itself; the result and the paths that exist afterwards.  rename
\* and copy replace an existing target, a failed hard link falls back to
\* copy, a symlink onto an existing target fails.
file_action_op(tree, target) ==
    LET missing == Len(target) > 0 /\ ~exists(tree, parent(target))
        made == IF missing THEN tree \cup create_dir_all(parent(target)) ELSE tree
    IN  IF missing /\ ~settings.mkdir THEN [ok |-> FALSE, fs |-> tree]
        ELSE IF settings.action_type.mode = "DryRun" THEN [ok |-> TRUE, fs |-> tree]
        ELSE IF settings.action_type.action \in {"Move", "Copy", "Hardlink"}
        THEN [ok |-> TRUE, fs |-> made \cup {target}]
        ELSE IF target \in made THEN [ok |-> FALSE, fs |-> made]
        ELSE [ok |-> TRUE, fs |-> made \cup {target}]

(***************************************************************************)
(* main(): the loop over the discovered files with the bracket grouper,    *)
(* the final drain and the collection of the completion signals.           *)
(***************************************************************************)
bracket_mode == settings.bracketed_file_format # None

MultiThreaded == settings.threads # NoCounter

\* args.threads.map(|v| v.max(1))
PoolSize == IF settings.threads < 1 THEN 1 ELSE settings.threads

\* the threads that run run_file: main itself (0) or the pool's workers
Threads == IF MultiThreaded THEN 1..PoolSize ELSE {0}

Idle == [pc |-> "idle", job |-> 0, dup_counter |-> 0, new_path |-> <<>>]

\* analysis/bracketed.rs: the bracket sequence number of the maker note;
\* an unreadable file is an error, a number of 0 is no bracketing
get_bracketing_info(file) ==
    IF file.exif < 0 THEN Err
    ELSE IF file.exif > 0 THEN Ok([some |-> TRUE, index |-> file.exif])
    ELSE Ok([some |-> FALSE])

\* drain_bracketed_queue with `last` taken from the file at hand
drain_bracketed_queue_LastIsCurrent(queue, group_index) ==
    [k \in 1..Len(queue) |->
        [file |-> queue[k].file,
         bracket_info |-> [some |-> TRUE,
                           first |-> queue[1].file,
                           last |-> queue[k].file,
                           sequence_number |-> queue[k].index,
                           sequence_length |-> Len(queue),
                           group_index |-> group_index]]]

\* the process_file calls drain_bracketed_queue makes for a queue
drain_bracketed_queue(queue, group_index) ==
    [k \in 1..Len(queue) |->
        [file |-> queue[k].file,
         bracket_info |-> [some |-> TRUE,
                           first |-> queue[1].file,
                           last |-> queue[Len(queue)].file,
                           sequence_number |-> queue[k].index,
                           sequence_length |-> Len(queue),
                           group_index |-> group_index]]]

\* drain_bracketed_queue without its early return on an empty queue
drained_group_index_NoEarlyReturn(queue, group_index) == group_index + 1

drained_group_index(queue, group_index) ==
    IF queue = <<>> THEN group_index ELSE group_index + 1

\* a main loop that does not wait for the inline run_file
MainReady_NeverWaits == TRUE

\* the main loop continues only when the inline run_file calls returned
MainReady ==
    MultiThreaded \/ (pending = <<>> /\ exec[0].pc = "idle")

\* process_file whose closure for the pool does not capture bracket_info
process_files_PoolDropsInfo(jobs) ==
    /\ dispatched' = dispatched \o
           [k \in 1..Len(jobs) |->
               IF settings.threads # NoCounter
               THEN [file |-> jobs[k].file, bracket_info |-> NoBracket]
               ELSE jobs[k]]
    /\ pending' = pending \o [k \in 1..Len(jobs) |-> Len(dispatched) + k]
    /\ outcome' = outcome \o
           [k \in 1..Len(jobs) |-> [status |-> "pending", target |-> <<>>]]

\* process_file for each job: inline in single-threaded mode (main runs
\* them one after another before it continues), pool.execute otherwise
process_files(jobs) ==
    /\ dispatched' = dispatched \o jobs
    /\ pending' = pending \o [k \in 1..Len(jobs) |-> Len(dispatched) + k]
    /\ outcome' = outcome \o
           [k \in 1..Len(jobs) |-> [status |-> "pending", target |-> <<>>]]

Plain(file) == [file |-> file, bracket_info |-> NoBracket]

\* the drain condition of main_impl.rs:342-358
drain(file) ==
    IF bracketed_queue # <<>>
    THEN LET last == bracketed_queue[Len(bracketed_queue)]
         IN  IF files[last.file].parent # files[file].parent THEN TRUE
             ELSE last.index + 1 # get_bracketing_info(files[file]).val.index
    ELSE FALSE

\* a bracketed file that is handed to process_file as soon as it is queued,
\* with the group as it stands
MainBracketed_Eager ==
    /\ pc = "loop" /\ i <= Len(files) /\ MainReady
    /\ bracket_mode
    /\ get_bracketing_info(files[i]).ok /\ get_bracketing_info(files[i]).val.some
    /\ LET info == get_bracketing_info(files[i]).val
           entry == [file |-> i, index |-> info.index]
           queue == IF drain(i) THEN <<entry>> ELSE Append(bracketed_queue, entry)
           group_index == IF drain(i) THEN bracket_group_index + 1
                          ELSE bracket_group_index
       IN  /\ process_files(<<drain_bracketed_queue(queue, group_index)[Len(queue)]>>)
           /\ bracket_group_index' = group_index
           /\ bracketed_queue' = queue
    /\ i' = i + 1
    /\ UNCHANGED <<act, folder, render, log, settings, files, fs, fs_initial, pc, exec, sent, count>>

\* Ok(Some(info)): a bracketed file
MainBracketed ==
    /\ pc = "loop" /\ i <= Len(files) /\ MainReady
    /\ bracket_mode
    /\ get_bracketing_info(files[i]).ok /\ get_bracketing_info(files[i]).val.some
    /\ LET info == get_bracketing_info(files[i]).val
           entry == [file |-> i, index |-> info.index]
       IN  IF drain(i)
           THEN /\ process_files(drain_bracketed_queue(bracketed_queue,
                                                       bracket_group_index))
                /\ bracket_group_index' =
                       drained_group_index(bracketed_queue, bracket_group_index)
                /\ bracketed_queue' = <<entry>>
           ELSE /\ bracketed_queue' = Append(bracketed_queue, entry)
                /\ UNCHANGED <<bracket_group_index, dispatched, pending, outcome>>
    /\ i' = i + 1
    /\ UNCHANGED <<act, folder, render, log, settings, files, fs, fs_initial, pc, exec, sent, count>>

\* a file without bracketing that is processed while the queue stays pending
MainNotBracketed_NoDrain ==
    /\ pc = "loop" /\ i <= Len(files) /\ MainReady
    /\ bracket_mode
    /\ get_bracketing_info(files[i]).ok /\ ~get_bracketing_info(files[i]).val.some
    /\ process_files(<<Plain(i)>>)
    /\ i' = i + 1
    /\ UNCHANGED <<act, folder, render, log, settings, files, fs, fs_initial, pc, bracketed_queue,
                   bracket_group_index, exec, sent, count>>

\* Ok(None): a file without bracketing
MainNotBracketed ==
    /\ pc = "loop" /\ i <= Len(files) /\ MainReady
    /\ bracket_mode
    /\ get_bracketing_info(files[i]).ok /\ ~get_bracketing_info(files[i]).val.some
    /\ process_files(drain_bracketed_queue(bracketed_queue, bracket_group_index)
                     \o <<Plain(i)>>)
    /\ bracket_group_index' = drained_group_index(bracketed_queue, bracket_group_index)
    /\ bracketed_queue' = <<>>
    /\ i' = i + 1
    /\ UNCHANGED <<act, folder, render, log, settings, files, fs, fs_initial, pc, exec, sent, count>>

\* Err(e): the bracket detection failed
MainBracketError ==
    /\ pc = "loop" /\ i <= Len(files) /\ MainReady
    /\ bracket_mode
    /\ ~get_bracketing_info(files[i]).ok
    /\ process_files(<<Plain(i)>>)
    /\ i' = i + 1
    /\ UNCHANGED <<act, folder, render, log, settings, files, fs, fs_initial, pc, bracketed_queue, bracket_group_index,
                   exec, sent, count>>

\* bracket mode is off
MainPlain ==
    /\ pc = "loop" /\ i <= Len(files) /\ MainReady
    /\ ~bracket_mode
    /\ process_files(<<Plain(i)>>)
    /\ i' = i + 1
    /\ UNCHANGED <<act, folder, render, log, settings, files, fs, fs_initial, pc, bracketed_queue, bracket_group_index,
                   exec, sent, count>>

\* the end of the loop without the final drain
MainEnd_NoDrain ==
    /\ pc = "loop" /\ i > Len(files) /\ MainReady
    /\ pc' = "collect"
    /\ UNCHANGED <<act, folder, render, log, settings, files, fs, fs_initial, i, bracketed_queue,
                   bracket_group_index, dispatched, pending, exec, outcome, sent, count>>

\* after the loop: the final drain
MainEnd ==
    /\ pc = "loop" /\ i > Len(files) /\ MainReady
    /\ process_files(drain_bracketed_queue(bracketed_queue, bracket_group_index))
    /\ bracket_group_index' = drained_group_index(bracketed_queue, bracket_group_index)
    /\ bracketed_queue' = <<>>
    /\ pc' = "collect"
    /\ UNCHANGED <<act, folder, render, log, settings, files, fs, fs_initial, i, exec, sent, count>>

\* context.iter().take(jobs): one completion signal is received
MainReceive ==
    /\ pc = "collect" /\ MultiThreaded
    /\ count < Len(files) /\ sent > 0
    /\ sent' = sent - 1
    /\ count' = count + 1
    /\ UNCHANGED <<act, folder, render, log, settings, files, fs, fs_initial, pc, i, bracketed_queue, bracket_group_index,
                   dispatched, pending, exec, outcome>>

\* every Sender of the channel is dropped and no signal is left in it: the
\* one of the context is dropped by multi_threading(), the clone of a job
\* when its closure has run or was unwound
Disconnected ==
    /\ pending = <<>>
    /\ \A w \in Threads : exec[w].pc = "idle"
    /\ sent = 0

\* a drain loop that ends only when every signal was received
drain_ends_OnlyAfterAll == count = Len(files)

\* context.iter().take(jobs) ends: after `jobs` signals, or when recv fails
\* because the channel is disconnected
drain_ends == count = Len(files) \/ Disconnected

\* the end of context.iter().take(jobs), after `jobs` signals or when the
\* channel is disconnected, and the comparison of count with jobs
MainFinish ==
    /\ pc = "collect" /\ MainReady
    /\ MultiThreaded => drain_ends
    /\ pc' = "done"
    /\ log' = IF MultiThreaded /\ count # Len(files)
              THEN log \cup {<<"Not all jobs got executed", 0>>}
              ELSE log
    /\ UNCHANGED <<act, folder, render, settings, files, fs, fs_initial, i, bracketed_queue, bracket_group_index,
                   dispatched, pending, exec, outcome, sent, count>>

(***************************************************************************)
(* run_file on a thread, one step per access to the shared file system.    *)
(***************************************************************************)
\* run_file returns: the result is recorded, a worker sends its signal
\* a worker that sends its signal only when run_file succeeded
\* error!("Error processing file: {err}") of process_file,
\* error!("Error renaming file: {}", err) of run_files_in_folder
error_message ==
    IF folder.pc = "off" THEN "Error processing file" ELSE "Error renaming file"

process_file_result_NoSignalOnError(w, job, status, target) ==
    /\ outcome' = [outcome EXCEPT ![job] = [status |-> status, target |-> target]]
    /\ exec' = [exec EXCEPT ![w] = Idle]
    /\ sent' = IF MultiThreaded /\ status = "ok" THEN sent + 1 ELSE sent
    /\ log' = IF status = "err"
              THEN log \cup {<<error_message, job>>}
              ELSE log

\* a process_file that does not log the error of run_file
process_file_result_Silent(w, job, status, target) ==
    /\ outcome' = [outcome EXCEPT ![job] = [status |-> status, target |-> target]]
    /\ exec' = [exec EXCEPT ![w] = Idle]
    /\ sent' = IF MultiThreaded THEN sent + 1 ELSE sent
    /\ log' = log

\* process_file after run_file returned for a job: an error is logged, a
\* worker of the pool sends the completion signal
process_file_result(w, job, status, target) ==
    /\ outcome' = [outcome EXCEPT ![job] = [status |-> status, target |-> target]]
    /\ exec' = [exec EXCEPT ![w] = Idle]
    /\ sent' = IF MultiThreaded THEN sent + 1 ELSE sent
    /\ log' = IF status = "err"
              THEN log \cup {<<error_message, job>>}
              ELSE log

Return(w, status, target) == process_file_result(w, exec[w].job, status, target)

\* the thread takes the next process_file call and renders the first path;
\* the idle workers of the pool are interchangeable, the lowest one takes it
RunStart(w) ==
    /\ w \in Threads /\ exec[w].pc = "idle" /\ pending # <<>>
    /\ \A v \in Threads : v < w => exec[v].pc # "idle"
    /\ LET j == Head(pending)
           r == IF is_unknown_file(dispatched[j]) \/ analyze(files[dispatched[j].file]).ok
                THEN new_file_path(file_name_info(dispatched[j], NoCounter))
                ELSE Err
       IN  /\ pending' = Tail(pending)
           /\ IF r.ok
              THEN /\ exec' = [exec EXCEPT ![w] =
                         [pc |-> "exists", job |-> j, dup_counter |-> 0,
                          new_path |-> r.val]]
                   /\ outcome' = [outcome EXCEPT ![j].status = "running"]
                   /\ UNCHANGED <<sent, log>>
              ELSE process_file_result(w, j, "err", <<>>)
    /\ UNCHANGED <<act, folder, render, settings, files, fs, fs_initial, pc, i, bracketed_queue, bracket_group_index,
                   dispatched, count>>

\* a duplicate loop that is never entered
dup_loop_continues_Never(tree, new_path) == FALSE

\* while new_path.exists()
dup_loop_continues(tree, new_path) == exists(tree, new_path)

\* a counter that skips a value
next_dup_counter_Skips(dup_counter) == dup_counter + 2

\* dup_counter += 1
next_dup_counter(dup_counter) == dup_counter + 1

\* the largest counter of the model: above what the files of a run and
\* the paths in the target directory can make a terminating loop reach
MaxDupCounter == MaxExisting + MaxJobs + 2

\* while new_path.exists(): one probe; on a hit the counter is incremented
\* and the path rendered again
RunExists(w) ==
    /\ w \in Threads /\ exec[w].pc = "exists"
    /\ exec[w].dup_counter < MaxDupCounter
    /\ IF dup_loop_continues(fs, exec[w].new_path)
       THEN LET c == next_dup_counter(exec[w].dup_counter)
                r == new_file_path(file_name_info(dispatched[exec[w].job], c))
            IN  IF r.ok
                THEN /\ exec' = [exec EXCEPT ![w].dup_counter = c,
                                             ![w].new_path = r.val]
                     /\ UNCHANGED <<outcome, sent, log>>
                ELSE Return(w, "err", <<>>)
       ELSE /\ exec' = [exec EXCEPT ![w].pc = "action"]
            /\ UNCHANGED <<outcome, sent, log>>
    /\ UNCHANGED <<act, folder, render, settings, files, fs, fs_initial, pc, i, bracketed_queue, bracket_group_index,
                   dispatched, pending, count>>

\* file_action: error_file_exists(target)
ActionCheck(w) ==
    /\ w \in Threads /\ exec[w].pc = "action"
    /\ IF error_file_exists(fs, exec[w].new_path).ok
       THEN /\ exec' = [exec EXCEPT ![w].pc = "op"]
            /\ UNCHANGED <<outcome, sent, log>>
       ELSE Return(w, "err", exec[w].new_path)
    /\ UNCHANGED <<act, folder, render, settings, files, fs, fs_initial, pc, i, bracketed_queue, bracket_group_index,
                   dispatched, pending, count>>

\* file_action: the parent check, the mkdir and the action
ActionOp(w) ==
    /\ w \in Threads /\ exec[w].pc = "op"
    /\ LET r == file_action_op(fs, exec[w].new_path)
       IN  /\ fs' = r.fs
           /\ Return(w, IF r.ok THEN "ok" ELSE "err", exec[w].new_path)
    /\ UNCHANGED <<act, folder, render, settings, files, fs_initial, pc, i, bracketed_queue, bracket_group_index,
                   dispatched, pending, count>>

\* a job of the pool panics inside run_file: the closure is unwound, its
\* Sender is dropped without a signal, the pool replaces the thread
RunPanic(w) ==
    /\ MultiThreaded
    /\ w \in Threads /\ exec[w].pc # "idle"
    /\ outcome' = [outcome EXCEPT ![exec[w].job] =
                      [status |-> "panicked", target |-> <<>>]]
    /\ exec' = [exec EXCEPT ![w] = Idle]
    /\ UNCHANGED <<act, folder, render, log, settings, files, fs, fs_initial, pc, i, bracketed_queue,
                   bracket_group_index, dispatched, pending, sent, count>>

(***************************************************************************)
(* Analyzer::run_files_in_folder: the entries of a folder one after        *)
(* another, each through run_file unless its extension is unknown and no   *)
(* unknown format is set.                                                  *)
(***************************************************************************)
\* a loop that goes on while run_file is running
FolderReady_NeverWaits == TRUE

\* run_file is called inline: the loop continues when it has returned
FolderReady == pending = <<>> /\ exec[0].pc = "idle"

\* self.run_file(&path, is_unknown_file)
FolderJob(entry, unknown) ==
    [file |-> entry, bracket_info |-> NoBracket, is_unknown_file |-> unknown]

\* an entry whose unknown extension does not keep it from run_file
skips_entry_Never(entry) == FALSE

\* Ok(false) => match self.settings.unknown_file_format { None => continue
skips_entry(entry) ==
    /\ ~is_valid_extension(extension(files[entry].file_name))
    /\ settings.unknown_file_format = None

\* one entry of the loop over fs::read_dir(root_source)
FolderEntry ==
    /\ folder.pc = "loop" /\ folder.n <= Len(files) /\ FolderReady
    /\ IF skips_entry(folder.n)
       THEN /\ folder' = [folder EXCEPT !.n = folder.n + 1,
                                        !.skipped = folder.skipped \cup {folder.n}]
            /\ UNCHANGED <<dispatched, pending, outcome>>
       ELSE /\ folder' = [folder EXCEPT !.n = folder.n + 1]
            /\ process_files(<<FolderJob(folder.n,
                   ~is_valid_extension(extension(files[folder.n].file_name)))>>)
    /\ UNCHANGED <<act, render, log, settings, files, fs, fs_initial, pc, i,
                   bracketed_queue, bracket_group_index, exec, sent, count>>

\* Ok(()) after the last entry
FolderEnd ==
    /\ folder.pc = "loop" /\ folder.n > Len(files) /\ FolderReady
    /\ folder' = [folder EXCEPT !.pc = "done"]
    /\ UNCHANGED <<act, render, log, settings, files, fs, fs_initial, pc, i,
                   bracketed_queue, bracket_group_index, dispatched, pending, exec,
                   outcome, sent, count>>

(***************************************************************************)
(* action::file_action step by step, on one source file and one target     *)
(* path: error_file_exists, the parent folder, then the action with every  *)
(* result its filesystem calls can have.                                   *)
(***************************************************************************)
\* matches!(action, ActionMode::DryRun(_))
is_dry_run_Never == FALSE

is_dry_run == settings.action_type.mode = "DryRun"

\* return Err(..) and the `?` of file_action and of move_file
failed(a) == [a EXCEPT !.pc = "done", !.result = "err"]

succeeded(a) == [a EXCEPT !.pc = "done", !.result = "ok"]

\* copy_file(source, target)? in move_file and the tail call in hardlink_file
copy_failed_Ignored(a) ==
    IF a.from = "move" THEN [a EXCEPT !.pc = "remove"] ELSE failed(a)

copy_failed(a) == failed(a)

\* error_file_exists(target).map_err(..)?
ActExists ==
    /\ act.pc = "exists"
    /\ act' = IF error_file_exists(act.tree, act.target).ok
              THEN [act EXCEPT !.pc = "parent"]
              ELSE failed(act)
    /\ UNCHANGED <<main_vars, render, folder>>

\* if let Some(parent) = target.parent(): the folder is created, or only
\* logged in a dry run; without mkdir a missing folder is an error
ActParent ==
    /\ act.pc = "parent"
    /\ IF exists(act.tree, parent(act.target))
       THEN act' = [act EXCEPT !.pc = "action"]
       ELSE IF ~settings.mkdir
       THEN act' = failed(act)
       ELSE IF is_dry_run
       THEN act' = [act EXCEPT !.pc = "action",
                               !.log = Append(act.log, <<"[Mkdir]", parent(act.target)>>)]
       ELSE \E created \in BOOLEAN :
               act' = IF created
                      THEN [act EXCEPT !.pc = "action",
                                       !.tree = act.tree \cup
                                                create_dir_all(parent(act.target))]
                      ELSE failed(act)
    /\ UNCHANGED <<main_vars, render, folder>>

\* ActionMode::DryRun(action) => dry_run(source, target, action)
ActDryRun ==
    /\ act.pc = "action"
    /\ settings.action_type.mode = "DryRun"
    /\ act' = succeeded([act EXCEPT !.log =
                 Append(act.log, <<settings.action_type.action, act.target>>)])
    /\ UNCHANGED <<main_vars, render, folder>>

\* move_file: fs::rename, and copy_file when it fails
ActRename ==
    /\ act.pc = "action"
    /\ settings.action_type = [mode |-> "Execute", action |-> "Move"]
    /\ \E renamed \in BOOLEAN :
          act' = IF renamed
                 THEN succeeded([act EXCEPT !.source = FALSE,
                                            !.tree = act.tree \cup {act.target}])
                 ELSE [act EXCEPT !.pc = "copy", !.from = "move"]
    /\ UNCHANGED <<main_vars, render, folder>>

\* hardlink_file: fs::hard_link, and copy_file when it fails
ActHardlink ==
    /\ act.pc = "action"
    /\ settings.action_type = [mode |-> "Execute", action |-> "Hardlink"]
    /\ \E linked \in BOOLEAN :
          act' = IF linked
                 THEN succeeded([act EXCEPT !.tree = act.tree \cup {act.target}])
                 ELSE [act EXCEPT !.pc = "copy", !.from = "hardlink"]
    /\ UNCHANGED <<main_vars, render, folder>>

\* relative_symlink_file, and absolute_symlink_file after fs::canonicalize
ActSymlink ==
    /\ act.pc = "action"
    /\ settings.action_type.mode = "Execute"
    /\ settings.action_type.action \in {"RelativeSymlink", "AbsoluteSymlink"}
    /\ \E linked \in BOOLEAN :
          act' = IF linked
                 THEN succeeded([act EXCEPT !.tree = act.tree \cup {act.target}])
                 ELSE failed(act)
    /\ UNCHANGED <<main_vars, render, folder>>

\* copy_file up to the comparison of the lengths: fs::metadata fails, fs::copy
\* fails with or without a part of the target written, fs::copy returns
\* another length than the metadata and the target is removed, or the
\* target is written
ActCopy ==
    /\ \/ act.pc = "copy"
       \/ /\ act.pc = "action"
          /\ settings.action_type = [mode |-> "Execute", action |-> "Copy"]
    /\ \E result \in {"metadata failed", "copy failed", "copy failed midway",
                      "length differs", "copied"} :
          act' = CASE result \in {"metadata failed", "copy failed"} -> copy_failed(act)
                   [] result = "copy failed midway" ->
                         copy_failed([act EXCEPT !.tree = act.tree \cup {act.target},
                                                 !.partial = TRUE])
                   [] result = "length differs" -> copy_failed(act)
                   [] OTHER -> [act EXCEPT !.pc = "times",
                                           !.tree = act.tree \cup {act.target}]
    /\ UNCHANGED <<main_vars, render, folder>>

\* filetime::set_file_times(target, atime, mtime)?, the end of copy_file
ActTimes ==
    /\ act.pc = "times"
    /\ \E set \in BOOLEAN :
          act' = IF ~set THEN copy_failed(act)
                 ELSE IF act.from = "move" THEN [act EXCEPT !.pc = "remove"]
                 ELSE succeeded(act)
    /\ UNCHANGED <<main_vars, render, folder>>

\* fs::remove_file(source), the result of move_file after a copy
ActRemove ==
    /\ act.pc = "remove"
    /\ \E removed \in BOOLEAN :
          act' = IF removed THEN succeeded([act EXCEPT !.source = FALSE])
                 ELSE failed(act)
    /\ UNCHANGED <<main_vars, render, folder>>

(***************************************************************************)
(* The runs of the model.                                                  *)
(***************************************************************************)
\* "{type}_{date}_{name}{dup}.{ext}"
FileFormat ==
    <<"{", "t", "y", "p", "e", "}", "_", "{", "d", "a", "t", "e", "}", "_",
      "{", "n", "a", "m", "e", "}", "{", "d", "u", "p", "}", ".",
      "{", "e", "x", "t", "}">>

\* "{b?num}_{b?seq}{dup}"
BracketedFileFormat ==
    <<"{", "b", "?", "n", "u", "m", "}", "_", "{", "b", "?", "s", "e", "q", "}",
      "{", "d", "u", "p", "}">>

\* "%Y%m%d-%H%M%S", the default of --date-format
DateFormat ==
    <<"%", "Y", "%", "m", "%", "d", "-", "%", "H", "%", "M", "%", "S">>

\* 2023-01-01 10:00:00
Date2023 ==
    [some |-> TRUE, Y |-> <<"2", "0", "2", "3">>, m |-> <<"0", "1">>,
     d |-> <<"0", "1">>, H |-> <<"1", "0">>, M |-> <<"0", "0">>, S |-> <<"0", "0">>]

Jpg == <<"j", "p", "g">>

Dirs == {"A", "B"}
Names == {<<>>, <<"1">>}

Settings(threads, bracketed_file_format, action) ==
    [file_format |-> FileFormat,
     nodate_file_format |-> FileFormat,
     bracketed_file_format |-> bracketed_file_format,
     date_format |-> DateFormat,
     extensions |-> <<Jpg>>,
     video_extensions |-> <<<<"m", "p", "4">>>>,
     unknown_file_format |-> None,
     analysis_type |-> "ExifThenName",
     mkdir |-> FALSE,
     name_formatters |-> main_formatters,
     action_type |-> [mode |-> "Execute", action |-> action],
     threads |-> threads]

\* IMG_<name>.jpg in the folder dir, with the EXIF date 2023-01-01 10:00:00
\* and no date in its name; exif is its bracket index
File(dir, exif, name) ==
    [parent |-> dir, exif |-> exif, exif_time |-> Ok(Date2023), name_time |-> <<>>,
     file_name |-> <<"I", "M", "G", "_">> \o name \o <<".">> \o Jpg]

Streams(kinds, n) == UNION {[1..k -> kinds] : k \in 0..n}

Start ==
    /\ pc = "loop"
    /\ i = 1
    /\ bracketed_queue = <<>>
    /\ bracket_group_index = 0
    /\ dispatched = <<>>
    /\ pending = <<>>
    /\ exec = [w \in 0..MaxThreads |-> Idle]
    /\ outcome = <<>>
    /\ sent = 0
    /\ count = 0
    /\ log = {}
    /\ render = [pc |-> "off"]
    /\ folder = [pc |-> "off"]
    /\ act = [pc |-> "off"]

\* IMG_20230101-100000_<suffix>.jpg
TargetNamed(suffix) ==
    << <<"I", "M", "G", "_", "2", "0", "2", "3", "0", "1", "0", "1", "-",
         "1", "0", "0", "0", "0", "0", "_">> \o suffix \o <<".">> \o Jpg >>

\* the target directory before the run: empty, or holding the first n of
\* IMG_20230101-100000_.jpg, IMG_20230101-100000_1.jpg, ..._11.jpg, ...
ExistingTrees ==
    {{<<>>} \cup {TargetNamed([k \in 1..m |-> "1"]) : m \in 0..(n - 1)} :
        n \in 0..(MaxExisting + 1)}

\* streams of bracketed, plain and unreadable files in two directories,
\* single-threaded into an empty target directory
InitGrouper ==
    /\ settings = Settings(NoCounter, BracketedFileFormat, "Move")
    /\ files \in Streams({File("A", e, <<>>) : e \in {-1, 0}}
                         \cup {File(dir, e, <<>>) : dir \in Dirs, e \in 1..MaxIndex},
                         MaxFiles)
    /\ fs = {<<>>}
    /\ fs_initial = fs
    /\ Start

\* files whose names collide, into a target directory that holds some of
\* the paths they render to, single-threaded, on a pool of one worker and on
\* the largest pool
InitDuplicates ==
    /\ settings \in {Settings(t, b, "Move") : t \in {NoCounter, 1, MaxThreads},
                                              b \in {None, BracketedFileFormat}}
    /\ files \in Streams({File("A", 0, <<>>), File("A", 0, <<"1">>),
                          File("A", 1, <<>>)}, MaxJobs)
    /\ settings.bracketed_file_format = None =>
           \A k \in 1..Len(files) : files[k].exif = 0
    /\ fs \in ExistingTrees
    /\ fs_initial = fs
    /\ Start

\* files whose steps fail: one that cannot be analysed, one without a date
\* whose format string has an unknown command, one whose target directory
\* does not exist; single-threaded and on the largest pool
NoFormatter == <<"{", "f", "o", "o", "}">>

\* "{name}/x{dup}"
DirFormat == <<"{", "n", "a", "m", "e", "}", "/", "x", "{", "d", "u", "p", "}">>

InitFailures ==
    /\ settings \in {[Settings(t, None, "Move") EXCEPT !.file_format = DirFormat,
                                                       !.nodate_file_format = NoFormatter] :
                         t \in {NoCounter, MaxThreads}}
    /\ files \in Streams({File("A", 0, <<>>), File("A", 0, <<"1">>),
                          [File("A", 0, <<>>) EXCEPT !.file_name =
                              <<"I", "M", "G", "_", ".", "t", "x", "t">>],
                          [File("A", 0, <<>>) EXCEPT !.exif_time = Ok(NoDate)]}, MaxJobs)
    /\ fs = {<<>>}
    /\ fs_initial = fs
    /\ Start

Init == InitGrouper \/ InitDuplicates \/ InitFailures

Next ==
    \/ MainBracketed
    \/ MainNotBracketed
    \/ MainBracketError
    \/ MainPlain
    \/ MainEnd
    \/ MainReceive
    \/ MainFinish
    \/ \E w \in 0..MaxThreads : RunStart(w)
    \/ \E w \in 0..MaxThreads : RunExists(w)
    \/ \E w \in 0..MaxThreads : ActionCheck(w)
    \/ \E w \in 0..MaxThreads : ActionOp(w)

Spec == Init /\ [][Next]_vars

\* runs of a thread pool in which a job may panic
InitPanic ==
    /\ settings \in {Settings(t, None, "Move") : t \in {1, MaxThreads}}
    /\ files \in Streams({File("A", 0, <<>>), File("A", 0, <<"1">>)}, MaxJobs)
    /\ fs \in {{<<>>}, {<<>>} \cup {TargetNamed(<<>>)}}
    /\ fs_initial = fs
    /\ Start

NextPanic ==
    \/ MainPlain
    \/ MainEnd
    \/ MainReceive
    \/ MainFinish
    \/ \E w \in 0..MaxThreads : RunStart(w)
    \/ \E w \in 0..MaxThreads : RunExists(w)
    \/ \E w \in 0..MaxThreads : ActionCheck(w)
    \/ \E w \in 0..MaxThreads : ActionOp(w)
    \/ \E w \in 0..MaxThreads : RunPanic(w)

SpecPanic == InitPanic /\ [][NextPanic]_vars

\* the templates, the registries and the invocations of the rendering runs
MaxParts == 2        \* pieces of a template
MaxFormatters == 2   \* formatters of a registry

\* x, {name}, a{l:dup}, {n}b, {foo}, an opening and a closing brace
Pieces ==
    { <<"x">>,
      <<"{", "n", "a", "m", "e", "}">>,
      <<"a", "{", "l", ":", "d", "u", "p", "}">>,
      <<"{", "n", "}", "b">>,
      <<"{", "f", "o", "o", "}">>,
      <<"{">>,
      <<"}">> }

RECURSIVE Templates(_)
Templates(n) ==
    IF n = 0 THEN {<<>>}
    ELSE Templates(n - 1) \cup {t \o p : t \in Templates(n - 1), p \in Pieces}

\* registries: up to MaxFormatters different formatters in any order
Registries ==
    LET kinds == {"FormatName", "FormatDuplicate", "ShadowingName", "FailingName"}
    IN  {r \in UNION {[1..n -> kinds] : n \in 0..MaxFormatters} :
            \A a, b \in DOMAIN r : a # b => r[a] # r[b]}

RenderInfo(cleaned_name, duplicate_counter) ==
    [date |-> Date2023,
     date_string |-> Strftime(Date2023, DateFormat),
     date_default_format |-> DateFormat,
     file_type |-> "Image",
     cleaned_name |-> cleaned_name,
     duplicate_counter |-> duplicate_counter,
     extension |-> Jpg,
     bracket_info |-> NoBracket,
     is_unknown_file |-> FALSE]

\* the arguments of {bracket?...} that BracketedFormat knows
BracketArguments ==
    { <<"s", "e", "q">>, <<"i", "n", "d", "e", "x">>,
      <<"n", "a", "m", "e">>, <<"n", "a", "m", "e", "_", "f", "i", "r", "s", "t">>,
      <<"f", "i", "r", "s", "t">>,
      <<"n", "a", "m", "e", "_", "l", "a", "s", "t">>, <<"l", "a", "s", "t">>,
      <<"l", "e", "n">>, <<"l", "e", "n", "g", "t", "h">>,
      <<"g", "r", "o", "u", "p">>, <<"g", "r", "p">>, <<"n", "u", "m">> }

\* {bracket?..}, {bracketed?..} and {b?..} with a known, an unknown, an empty
\* and no argument, with and without a label, alone or before x or {name}
BracketTemplates ==
    LET heads == {<<"b", "r", "a", "c", "k", "e", "t">>,
                  <<"b", "r", "a", "c", "k", "e", "t", "e", "d">>, <<"b">>}
        arguments == {<<"?">> \o a : a \in BracketArguments \cup {<<"x">>, <<>>}}
                     \cup {<<>>}
        labels == {<<>>, <<"l", ":">>}
        rests == {<<>>, <<"x">>, <<"{", "n", "a", "m", "e", "}">>}
    IN  {<<"{">> \o l \o h \o a \o <<"}">> \o r :
            l \in labels, h \in heads, a \in arguments, r \in rests}

\* a call replace_filepath_parts(format_string, info) at its beginning
InitRender ==
    /\ settings \in {[Settings(NoCounter, None, "Move") EXCEPT !.name_formatters = r,
                                                              !.file_format = t] :
                        r \in Registries, t \in Templates(MaxParts)}
                     \cup
                     {[Settings(NoCounter, None, "Move") EXCEPT !.file_format = t] :
                        t \in BracketTemplates}
    /\ files = <<>>
    /\ fs = {<<>>}
    /\ fs_initial = fs
    /\ pc = "loop"
    /\ i = 1
    /\ bracketed_queue = <<>>
    /\ bracket_group_index = 0
    /\ dispatched = <<>>
    /\ pending = <<>>
    /\ exec = [w \in 0..MaxThreads |-> Idle]
    /\ outcome = <<>>
    /\ sent = 0
    /\ count = 0
    /\ log = {}
    /\ folder = [pc |-> "off"]
    /\ act = [pc |-> "off"]
    /\ render \in {[pc |-> "capture",
                    format_string |-> t,
                    info |-> n,
                    current_string_index |-> 1,
                    final_string |-> <<>>,
                    start |-> 0,
                    end |-> 0,
                    command_modifier |-> <<>>,
                    actual_command |-> <<>>,
                    k |-> 1,
                    invoked |-> <<>>,
                    result |-> [some |-> FALSE]] :
                      t \in {settings.file_format},
                      n \in {RenderInfo(<<"c">>, NoCounter), RenderInfo(<<>>, 1)}}

NextRender ==
    \/ RenderCapture
    \/ RenderFormatter
    \/ RenderFinish

SpecRender == InitRender /\ [][NextRender]_vars

\* the target path d/f of the file_action runs
ActTarget == << <<"d">>, <<"f">> >>

ActionModes ==
    {[mode |-> m, action |-> a] :
        m \in {"Execute", "DryRun"},
        a \in {"Move", "Copy", "Hardlink", "RelativeSymlink", "AbsoluteSymlink"}}

\* a call file_action(source, target, action, mkdir) on a target directory
\* that is empty, holds the folder d, or holds d/f
InitAction ==
    /\ settings \in {[Settings(NoCounter, None, "Move") EXCEPT !.action_type = a,
                                                              !.mkdir = m] :
                        a \in ActionModes, m \in BOOLEAN}
    /\ files = <<>>
    /\ fs = {<<>>}
    /\ fs_initial = fs
    /\ pc = "loop"
    /\ i = 1
    /\ bracketed_queue = <<>>
    /\ bracket_group_index = 0
    /\ dispatched = <<>>
    /\ pending = <<>>
    /\ exec = [w \in 0..MaxThreads |-> Idle]
    /\ outcome = <<>>
    /\ sent = 0
    /\ count = 0
    /\ log = {}
    /\ render = [pc |-> "off"]
    /\ folder = [pc |-> "off"]
    /\ act \in {[pc |-> "exists",
                 target |-> ActTarget,
                 tree |-> t,
                 before |-> t,
                 source |-> TRUE,
                 partial |-> FALSE,
                 from |-> "none",
                 result |-> "none",
                 log |-> <<>>] :
                   t \in {{<<>>}, create_dir_all(parent(ActTarget)),
                          create_dir_all(ActTarget)}}

NextAction ==
    \/ ActExists
    \/ ActParent
    \/ ActDryRun
    \/ ActRename
    \/ ActHardlink
    \/ ActSymlink
    \/ ActCopy
    \/ ActTimes
    \/ ActRemove

SpecAction == InitAction /\ [][NextAction]_vars

\* the runs of run_files_in_folder
MaxEntries == 2      \* entries of the folder

\* a file <stem>.<ext> with the result of reading its EXIF date and the
\* results of the transformers on the captures of its name
Entry(stem, ext, exif_time, name_time) ==
    [parent |-> "A", exif |-> 0, exif_time |-> exif_time, name_time |-> name_time,
     file_name |-> stem \o <<".">> \o ext]

\* a capture whose transform fails, the capture 24 with the date
\* 2024-01-01 10:00:00
BadCapture == [ok |-> FALSE]
GoodCapture ==
    [ok |-> TRUE, date |-> [Date2023 EXCEPT !.Y = <<"2", "0", "2", "4">>],
     matched |-> <<"2", "4">>]

\* IMG_24_a.jpg with every result of the two sources of a date, and
\* IMG_24_a.txt, whose extension is in neither list
AnalysisEntries ==
    {Entry(<<"I", "M", "G", "_", "2", "4", "_", "a">>, Jpg, e, n) :
        e \in {Err, Ok(NoDate), Ok(Date2023)},
        n \in {<<>>, <<BadCapture>>, <<BadCapture, GoodCapture>>}}
    \cup {Entry(<<"I", "M", "G", "_", "2", "4", "_", "a">>, <<"t", "x", "t">>, Ok(Date2023),
                <<GoodCapture>>)}

\* "D_{date}_{name}{dup}", "N_{name}{dup}", "U_{date}_{name}{dup}"
DatedFormat ==
    <<"D", "_", "{", "d", "a", "t", "e", "}", "_", "{", "n", "a", "m", "e", "}",
      "{", "d", "u", "p", "}">>
NoDateFormat == <<"N", "_", "{", "n", "a", "m", "e", "}", "{", "d", "u", "p", "}">>
UnknownFormat ==
    <<"U", "_", "{", "d", "a", "t", "e", "}", "_", "{", "n", "a", "m", "e", "}",
      "{", "d", "u", "p", "}">>

\* IMG_...jpg, whose cleaned name is "..", and IMG_1.jpg
TraversalEntries ==
    {Entry(<<"I", "M", "G", "_", ".", ".">>, Jpg, Ok(Date2023), <<>>),
     Entry(<<"I", "M", "G", "_", "1">>, Jpg, Ok(Date2023), <<>>)}

\* "../{name}{dup}", "{name}/..", "{name}/x{dup}", ".\./{name}{dup}" and
\* "{name}", which has no {dup}
TraversalFormats ==
    { <<".", ".", "/", "{", "n", "a", "m", "e", "}", "{", "d", "u", "p", "}">>,
      <<"{", "n", "a", "m", "e", "}", "/", ".", ".">>,
      <<"{", "n", "a", "m", "e", "}", "/", "x", "{", "d", "u", "p", "}">>,
      <<".", "\\", ".", "/", "{", "n", "a", "m", "e", "}", "{", "d", "u", "p", "}">>,
      <<"{", "n", "a", "m", "e", "}">> }

FolderStart ==
    /\ fs_initial = fs
    /\ pc = "loop"
    /\ i = 1
    /\ bracketed_queue = <<>>
    /\ bracket_group_index = 0
    /\ dispatched = <<>>
    /\ pending = <<>>
    /\ exec = [w \in 0..MaxThreads |-> Idle]
    /\ outcome = <<>>
    /\ sent = 0
    /\ count = 0
    /\ log = {}
    /\ render = [pc |-> "off"]
    /\ act = [pc |-> "off"]
    /\ folder = [pc |-> "loop", n |-> 1, skipped |-> {}]

\* every analysis type, with and without an unknown format, on files with
\* every result of the date sources, into an empty target directory
InitAnalysis ==
    /\ settings \in {[Settings(NoCounter, None, "Move") EXCEPT
                         !.file_format = DatedFormat,
                         !.nodate_file_format = NoDateFormat,
                         !.unknown_file_format = u,
                         !.analysis_type = a] :
                        u \in {None, UnknownFormat},
                        a \in {"OnlyExif", "OnlyName", "ExifThenName", "NameThenExif"}}
    /\ files \in Streams(AnalysisEntries, MaxEntries)
    /\ fs = {<<>>}
    /\ FolderStart

\* format strings with a component "..", and one without {dup}, on files
\* whose name is ".." or 1, into a target directory that is empty or holds 1
InitTraversal ==
    /\ settings \in {[Settings(NoCounter, None, "Move") EXCEPT
                         !.file_format = f, !.nodate_file_format = f, !.mkdir = TRUE] :
                        f \in TraversalFormats}
    /\ files \in Streams(TraversalEntries, MaxEntries)
    /\ fs \in {{<<>>}, {<<>>, << <<"1">> >>}}
    /\ FolderStart

InitFolder == InitAnalysis \/ InitTraversal

NextFolder ==
    \/ FolderEntry
    \/ FolderEnd
    \/ RunStart(0)
    \/ RunExists(0)
    \/ ActionCheck(0)
    \/ ActionOp(0)

SpecFolder == InitFolder /\ [][NextFolder]_vars

(***************************************************************************)
(* Single-threaded execution as a function of the discovered files and of  *)
(* the initial target directory: the reference of the comparison with the  *)
(* thread pool.                                                            *)
(***************************************************************************)
\* the duplicate loop of run_file on the paths `tree`, from counter c on
RECURSIVE resolve_duplicates(_, _, _)
resolve_duplicates(job, c, tree) ==
    LET r == new_file_path(file_name_info(job, IF c = 0 THEN NoCounter ELSE c))
    IN  IF ~r.ok THEN Err
        ELSE IF dup_loop_continues(tree, r.val)
        THEN resolve_duplicates(job, next_dup_counter(c), tree)
        ELSE r

\* run_file as a whole on the paths `tree`: its result and the paths after it
run_file(job, tree) ==
    LET r == IF is_unknown_file(job) \/ analyze(files[job.file]).ok
             THEN resolve_duplicates(job, 0, tree)
             ELSE Err
    IN  IF ~r.ok THEN [status |-> "err", target |-> <<>>, fs |-> tree]
        ELSE IF ~error_file_exists(tree, r.val).ok
        THEN [status |-> "err", target |-> r.val, fs |-> tree]
        ELSE LET a == file_action_op(tree, r.val)
             IN  [status |-> IF a.ok THEN "ok" ELSE "err", target |-> r.val,
                  fs |-> a.fs]

\* the results of run_file for the jobs from k on, one after another
RECURSIVE SequentialOutcome(_, _, _)
SequentialOutcome(jobs, k, tree) ==
    IF k > Len(jobs) THEN <<>>
    ELSE LET r == run_file(jobs[k], tree)
         IN  <<[status |-> r.status, target |-> r.target]>>
             \o SequentialOutcome(jobs, k + 1, r.fs)

\* the process_file calls of main()'s loop from file k on, in order
RECURSIVE main_loop(_, _, _)
main_loop(k, queue, group_index) ==
    IF k > Len(files) THEN drain_bracketed_queue(queue, group_index)
    ELSE IF ~bracket_mode THEN <<Plain(k)>> \o main_loop(k + 1, queue, group_index)
    ELSE LET info == get_bracketing_info(files[k])
         IN  IF ~info.ok THEN <<Plain(k)>> \o main_loop(k + 1, queue, group_index)
             ELSE IF ~info.val.some
             THEN drain_bracketed_queue(queue, group_index) \o <<Plain(k)>>
                  \o main_loop(k + 1, <<>>, drained_group_index(queue, group_index))
             ELSE IF queue # <<>>
                     /\ (files[queue[Len(queue)].file].parent # files[k].parent
                         \/ queue[Len(queue)].index + 1 # info.val.index)
             THEN drain_bracketed_queue(queue, group_index)
                  \o main_loop(k + 1, <<[file |-> k, index |-> info.val.index]>>,
                               group_index + 1)
             ELSE main_loop(k + 1, Append(queue, [file |-> k, index |-> info.val.index]),
                            group_index)

(***************************************************************************)
(* The claims.                                                             *)
(***************************************************************************)
Jobs == 1..Len(dispatched)
HasInfo(j) == dispatched[j].bracket_info.some
GroupOf(j) == dispatched[j].bracket_info.group_index
GroupJobs(d, g) ==
    {k \in 1..Len(d) : d[k].bracket_info.some /\ d[k].bracket_info.group_index = g}
JobsOfFile(f) == {j \in Jobs : dispatched[j].file = f}
Min(S) == CHOOSE x \in S : \A y \in S : x <= y
Max(S) == CHOOSE x \in S : \A y \in S : x >= y

\* files p..q are consecutive bracketed files of one directory whose
\* indices each are the previous index + 1
SameRun(p, q) ==
    /\ \A k \in p..q : files[k].exif > 0
    /\ \A k \in p..(q - 1) : /\ files[k + 1].parent = files[k].parent
                            /\ files[k + 1].exif = files[k].exif + 1

\* C1: in bracket mode the emitted groups are exactly the maximal runs of
\* consecutive bracketed files that share a parent directory and whose
\* indices increase by one: after the final drain two files carry the same
\* group exactly when they and the files between them form such a run.
C1_GroupsAreMaximalRuns ==
    (pc # "loop" /\ bracket_mode) =>
        \A j1, j2 \in Jobs :
            dispatched[j1].file <= dispatched[j2].file =>
                ((HasInfo(j1) /\ HasInfo(j2) /\ GroupOf(j1) = GroupOf(j2))
                 <=> SameRun(dispatched[j1].file, dispatched[j2].file))

\* the main loop is at file i, which is of the given kind of bracket result,
\* with files waiting in the queue, and takes its step
StepOnFile(unreadable, bracketed) ==
    /\ pc = "loop" /\ i <= Len(files) /\ i' = i + 1
    /\ bracket_mode
    /\ bracketed_queue # <<>>
    /\ (files[i].exif < 0) = unreadable
    /\ (files[i].exif > 0) = bracketed

\* the step hands the queued files to process_file as one group and then
\* file i without bracket info, and leaves the queue empty
FlushedThenPlain ==
    LET n == Len(bracketed_queue)
        base == Len(dispatched)
    IN  /\ Len(dispatched') = base + n + 1
        /\ SubSeq(dispatched', 1, base) = dispatched
        /\ \A k \in 1..n :
              /\ dispatched'[base + k].file = bracketed_queue[k].file
              /\ dispatched'[base + k].bracket_info.some
              /\ dispatched'[base + k].bracket_info.sequence_length = n
              /\ dispatched'[base + k].bracket_info.group_index =
                     dispatched'[base + 1].bracket_info.group_index
        /\ dispatched'[base + n + 1] = [file |-> i, bracket_info |-> NoBracket]
        /\ pending' = pending \o [k \in 1..(n + 1) |-> base + k]
        /\ bracketed_queue' = <<>>

\* C2: when a non-bracketed file arrives while the queue is non-empty, the
\* queued files are dispatched as one group before it, the queue is empty
\* afterwards and the file is processed with no bracket info.
C2_NonBracketedFlushesFirst ==
    [][StepOnFile(FALSE, FALSE) => FlushedThenPlain]_vars

\* C2 witness: a plain file was dispatched right after the last member of a
\* group of two.
C2_Witness ==
    \E j \in Jobs :
        /\ j > 2 /\ ~HasInfo(j) /\ files[dispatched[j].file].exif = 0
        /\ HasInfo(j - 1) /\ dispatched[j - 1].bracket_info.sequence_length = 2
        /\ dispatched[j - 1].file = dispatched[j].file - 1
        /\ bracketed_queue = <<>>

\* C3: when bracket detection fails for a file while the queue is non-empty,
\* the queue is flushed (its files dispatched as one group) before the
\* failing file is processed with no bracket info, and is empty afterwards.
C3_ErrorFlushesFirst ==
    [][StepOnFile(TRUE, FALSE) => FlushedThenPlain]_vars

\* a step that flushes the queue: its first entry leaves it
Flushes ==
    /\ bracketed_queue # <<>>
    /\ bracketed_queue' = <<>> \/ bracketed_queue'[1] # bracketed_queue[1]

\* C4: a flush of a queue of n >= 1 files dispatches each queued file exactly
\* once, in queue order, with a BracketInfo whose first, last,
\* sequence_length (n) and group_index are the same for all of them and whose
\* sequence_number is the file's own bracket index; none of them stays queued.
C4_FlushDispatchesGroup ==
    [][Flushes =>
        LET n == Len(bracketed_queue)
            base == Len(dispatched)
        IN  /\ Len(dispatched') >= base + n
            /\ \A k \in 1..n :
                  /\ dispatched'[base + k] =
                        [file |-> bracketed_queue[k].file,
                         bracket_info |->
                            [some |-> TRUE,
                             first |-> bracketed_queue[1].file,
                             last |-> bracketed_queue[n].file,
                             sequence_number |-> files[bracketed_queue[k].file].exif,
                             sequence_length |-> n,
                             group_index |-> bracket_group_index]]
                  /\ Cardinality({j \in 1..Len(dispatched') :
                        dispatched'[j].file = bracketed_queue[k].file}) = 1
                  /\ \A m \in 1..Len(bracketed_queue') :
                        bracketed_queue'[m].file # bracketed_queue[k].file
    ]_vars

\* C4 witness: the second file of a group of two has been dispatched, with
\* its own bracket index 2 as sequence_number.
C4_Witness ==
    \E j \in Jobs :
        /\ HasInfo(j)
        /\ dispatched[j].bracket_info.sequence_length = 2
        /\ dispatched[j].bracket_info.sequence_number = 2
        /\ dispatched[j].bracket_info.first = dispatched[j].file - 1
        /\ dispatched[j].bracket_info.last = dispatched[j].file
        /\ bracketed_queue = <<>>

\* the groups dispatched so far carry 0, 1, 2, ... in emission order, one
\* per flush, and files of different flushes do not share a group_index
GroupIndexInOrder ==
    LET B == {j \in Jobs : HasInfo(j)}
    IN  /\ {GroupOf(j) : j \in B} = 0..(bracket_group_index - 1)
        /\ Cardinality({j \in B : dispatched[j].file = dispatched[j].bracket_info.first})
               = bracket_group_index
        /\ \A j, k \in B :
              /\ j < k => GroupOf(j) <= GroupOf(k)
              /\ GroupOf(j) = GroupOf(k) =>
                    /\ dispatched[j].bracket_info.first = dispatched[k].bracket_info.first
                    /\ dispatched[j].bracket_info.last = dispatched[k].bracket_info.last

\* C5: group_index starts at 0, grows by exactly one with every flush of a
\* non-empty queue (single-file groups included) and never changes
\* otherwise; hence the k-th emitted group carries group_index k-1, the
\* indices increase in emission order and files of different groups never
\* share one.
C5_GroupIndexCountsFlushes ==
    /\ bracket_group_index = 0
    /\ [][/\ bracket_group_index' =
                 bracket_group_index + (IF Flushes THEN 1 ELSE 0)
          /\ GroupIndexInOrder']_vars

\* C5 witness: three groups were emitted, one of them a single file.
C5_Witness ==
    /\ bracket_group_index = 3
    /\ \E j \in Jobs : HasInfo(j) /\ dispatched[j].bracket_info.sequence_length = 1
    /\ \E j \in Jobs : HasInfo(j) /\ GroupOf(j) = 2

\* every group in the dispatched calls d is complete: as many members as its
\* sequence_length, its first and last member at first and last
GroupsComplete(d) ==
    \A j \in 1..Len(d) :
        d[j].bracket_info.some =>
            LET G == GroupJobs(d, d[j].bracket_info.group_index)
            IN  /\ Cardinality(G) = d[j].bracket_info.sequence_length
                /\ d[Min(G)].file = d[j].bracket_info.first
                /\ d[Max(G)].file = d[j].bracket_info.last

\* C6: no member of a group is dispatched before the group's boundaries are
\* final: a dispatched file's sequence_length, first and last are those of
\* the group as it ends up, no file joins a group after a member of it was
\* dispatched, and a file still in the queue has not been dispatched.
C6_GroupFinalBeforeDispatch ==
    [][/\ GroupsComplete(dispatched')
       /\ \A j \in Jobs :
             HasInfo(j) => GroupJobs(dispatched', GroupOf(j)) = GroupJobs(dispatched, GroupOf(j))
       /\ \A m \in 1..Len(bracketed_queue') :
             \A j \in 1..Len(dispatched') :
                dispatched'[j].file # bracketed_queue'[m].file
    ]_vars

\* C6 witness: a group of two has been dispatched and the next group is
\* being collected in the queue.
C6_Witness ==
    /\ bracketed_queue # <<>>
    /\ \E j \in Jobs : HasInfo(j) /\ dispatched[j].bracket_info.sequence_length = 2

\* C7: every discovered file is dispatched exactly once: a file the loop has
\* passed is either dispatched once or waits in the queue, none is
\* dispatched twice, and after the loop the queue is empty, there are as
\* many jobs as files and, at the end, every job has run.
C7_EveryFileDispatchedOnce ==
    /\ \A f \in 1..Len(files) :
          Cardinality(JobsOfFile(f))
          + Cardinality({m \in 1..Len(bracketed_queue) : bracketed_queue[m].file = f})
              = IF f < i THEN 1 ELSE 0
    /\ pc # "loop" => bracketed_queue = <<>> /\ Len(dispatched) = Len(files)
    /\ pc = "done" => \A j \in Jobs : outcome[j].status \in {"ok", "err"}

\* C7 witness: a run has ended whose stream holds an unreadable file and
\* ends with a bracketed file, which only the final drain dispatches.
C7_Witness ==
    /\ pc = "done"
    /\ Len(files) >= 2
    /\ files[Len(files)].exif > 0
    /\ \E k \in 1..Len(files) : files[k].exif < 0

\* the path run_file renders for a job at a value of its duplicate counter,
\* 0 standing for the first rendering, without a counter
Candidate(job, c) ==
    new_file_path(file_name_info(job, IF c = 0 THEN NoCounter ELSE c)).val

\* the text `{dup}` contributes at a value of the counter
DupText(c) == IF c = 0 THEN <<>> ELSE to_string(c)

\* the thread's step inside run_file follows the duplicate loop: the counter
\* starts without a value and steps by one past an existing path, the path
\* is the rendering at the counter, and when the loop stops at a path that
\* does not exist, every rendering at a lower counter exists
DuplicateLoopStep(w) ==
    LET e == exec[w]
        n == exec'[w]
    IN  /\ (e.pc = "idle" /\ n.pc # "idle") =>
              n.pc = "exists" /\ n.dup_counter = 0
        /\ (e.pc = "exists" /\ n.pc = "exists" /\ n # e) =>
              /\ n.job = e.job
              /\ n.dup_counter = e.dup_counter + 1
              /\ e.new_path \in fs
        /\ (e.pc = "exists" /\ n.pc = "action") =>
              /\ e.new_path \notin fs
              /\ n = [e EXCEPT !.pc = "action"]
              /\ \A c \in 0..(e.dup_counter - 1) :
                    Candidate(dispatched[e.job], c) \in fs
        /\ (e.pc \in {"action", "op"} /\ n.pc # "idle") =>
              n = e \/ n = [e EXCEPT !.pc = "op"]
        /\ (e.pc \in {"action", "op"} /\ n.pc = "idle") =>
              outcome'[e.job].target = e.new_path
        /\ (n.pc = "exists" /\ n # e) =>
              /\ n.new_path = Candidate(dispatched[n.job], n.dup_counter)
              /\ (~dispatched[n.job].bracket_info.some
                  /\ format_string_of(file_name_info(dispatched[n.job], NoCounter))
                         = FileFormat) =>
                    n.new_path = TargetNamed(file_name_info(dispatched[n.job], NoCounter).cleaned_name
                                             \o DupText(n.dup_counter))

\* C8: duplicate resolution renders first without a counter, then, while the
\* rendered path exists, with the counters 1, 2, 3, ... one after another,
\* and stops at the first candidate that does not exist; that candidate is
\* the path handed to the file action.  All candidates for lower counters
\* exist, so with None, 1, ..., N-1 taken the counter is N, and with
\* IMG_20230101-100000_.jpg present "{type}_{date}_{name}{dup}.{ext}" gives
\* IMG_20230101-100000_1.jpg.
C8_DuplicateCounterCountsUp ==
    [][/\ fs \subseteq fs'
       /\ \A w \in 0..MaxThreads : DuplicateLoopStep(w)]_vars

\* C8 witness: single-threaded, with IMG_20230101-100000_.jpg present and
\* IMG_20230101-100000_1.jpg absent before the run, a file of that name was
\* moved to IMG_20230101-100000_1.jpg.
C8_Witness ==
    /\ ~MultiThreaded
    /\ TargetNamed(<<>>) \in fs_initial
    /\ TargetNamed(<<"1">>) \notin fs_initial
    /\ \E j \in Jobs :
          /\ analyze(files[dispatched[j].file]).ok
          /\ file_name_info(dispatched[j], NoCounter).cleaned_name = <<>>
          /\ ~HasInfo(j)
          /\ outcome[j] = [status |-> "ok", target |-> TargetNamed(<<"1">>)]

\* C9: the existence check and the file action are not one atomic step in
\* pool mode: a thread is past the check towards the file action with a
\* target that exists by now only on a pool of two or more workers, where
\* another job took the same target in between; on a single thread the path
\* that passed the check still does not exist at the action.
C9_CheckAndActionNotAtomic ==
    \A w \in 0..MaxThreads :
        (exec[w].pc \in {"action", "op"} /\ exec[w].new_path \in fs) =>
            /\ MultiThreaded /\ PoolSize >= 2
            /\ \E j \in Jobs :
                  /\ j # exec[w].job
                  /\ outcome[j] = [status |-> "ok", target |-> exec[w].new_path]

\* C9 witness: two workers have both seen that the same candidate path does
\* not exist and both are at the file action with it as their target.
C9_Witness ==
    /\ MultiThreaded
    /\ \E w1, w2 \in Threads :
          /\ w1 # w2
          /\ exec[w1].pc = "op" /\ exec[w2].pc = "op"
          /\ exec[w1].new_path = exec[w2].new_path
          /\ exec[w1].new_path \notin fs

\* two of the dispatched files have a candidate path in common
Collide ==
    \E j1, j2 \in Jobs :
        /\ j1 < j2
        /\ analyze(files[dispatched[j1].file]).ok
        /\ analyze(files[dispatched[j2].file]).ok
        /\ \E c1, c2 \in 0..(MaxExisting + 1 + Len(files)) :
              Candidate(dispatched[j1], c1) = Candidate(dispatched[j2], c2)

Returned == {j \in Jobs : outcome[j].status \in {"ok", "err"}}
Panicked == {j \in Jobs : outcome[j].status = "panicked"}
NotAllJobs == <<"Not all jobs got executed", 0>>

\* C11: in pool mode every job whose run_file returned, with success or with
\* an error, has sent exactly one completion signal; main finishes after
\* one signal per submitted job (as many as discovered files) unless it
\* received fewer, and then, and only then, "Not all jobs got executed" is
\* logged.
C11_OneSignalPerJob ==
    MultiThreaded =>
        /\ sent + count = Cardinality(Returned)
        /\ count <= Len(files)
        /\ pc # "done" => NotAllJobs \notin log
        /\ pc = "done" =>
              /\ Len(dispatched) = Len(files)
              /\ NotAllJobs \in log <=> count < Len(files)
              /\ Panicked = {} => count = Len(files)

\* C11 witness: a pool run has ended in which one job returned an error and
\* another one succeeded, and main received a signal for each.
C11_Witness ==
    /\ pc = "done" /\ MultiThreaded
    /\ count = Len(files) /\ count >= 2
    /\ \E j \in Jobs : outcome[j].status = "err"
    /\ \E j \in Jobs : outcome[j].status = "ok"

\* C12 as stated: once a job of the pool has panicked without sending its
\* signal, main never gets past the final drain loop.
C12_PanicBlocksMainForever ==
    Panicked # {} => pc # "done"

\* C12 amended: a job that panics sends no signal but drops its Sender, so
\* the drain loop is never stuck: it can end, or a signal is waiting, or a
\* job is running or can be started; when every other job has returned the
\* channel is disconnected, the loop ends with fewer signals than jobs and
\* main logs "Not all jobs got executed" and finishes.
C12_PanicEndsDrainWithError ==
    /\ (pc = "collect" /\ MultiThreaded) =>
          \/ drain_ends
          \/ sent > 0
          \/ \E w \in Threads : exec[w].pc # "idle"
          \/ pending # <<>> /\ \E w \in Threads : exec[w].pc = "idle"
    /\ (pc = "done" /\ Panicked # {}) =>
          /\ count = Len(files) - Cardinality(Panicked)
          /\ NotAllJobs \in log
          /\ Returned \cup Panicked = Jobs

\* C12 witness: a pool run has ended in which one job panicked and another
\* one succeeded.
C12_Witness ==
    /\ pc = "done" /\ MultiThreaded
    /\ Panicked # {}
    /\ \E j \in Jobs : outcome[j].status = "ok"
    /\ count = Len(files) - 1

\* a file action is under way or performed: a thread is inside file_action
\* or a job's run_file has returned from it
FileActionBegun ==
    \/ \E w \in 0..MaxThreads : exec[w].pc \in {"action", "op"}
    \/ \E j \in Jobs : outcome[j].status = "ok"

\* C13 as stated: grouping and classification are completed for all files
\* before any file action is performed on any file.
C13_ClassificationBeforeAnyAction ==
    FileActionBegun => pc # "loop"

\* C13 amended: grouping and classification run only on the main thread
\* (no step of a run_file changes the loop position, the queue, the group
\* index or the dispatched calls), sequentially in traversal order, and a
\* file is acted on only after its own classification and after its group
\* left the queue; they are not completed for all files first: in
\* single-threaded mode every dispatched file is processed to its end before
\* the next file is classified.
C13_ClassificationOnMainThreadPerFile ==
    [][/\ i' \in {i, i + 1}
       /\ exec' # exec =>
             UNCHANGED <<i, bracketed_queue, bracket_group_index, dispatched>>
       /\ \A w \in 0..MaxThreads :
             exec'[w].pc # "idle" =>
                /\ dispatched'[exec'[w].job].file < i'
                /\ \A m \in 1..Len(bracketed_queue') :
                      bracketed_queue'[m].file # dispatched'[exec'[w].job].file
       /\ (~MultiThreaded /\ i' = i + 1) =>
             \A j \in Jobs : outcome[j].status \in {"ok", "err"}
    ]_vars

\* C13 witness: single-threaded in bracket mode, a file has been moved while
\* the loop has files left to classify and a group is being collected.
C13_Witness ==
    /\ ~MultiThreaded /\ bracket_mode
    /\ pc = "loop" /\ i <= Len(files)
    /\ bracketed_queue # <<>>
    /\ \E j \in Jobs : outcome[j].status = "ok"

\* run_file fails for the job on its own, into an empty target directory
FailsAlone(j) == run_file(dispatched[j], {<<>>}).status = "err"

Accepting(command) ==
    {k \in 1..Len(name_formatters) : argument_template(name_formatters[k], command)}

Parts(r, command) ==
    {k \in 1..Len(r.final_string) : r.final_string[k].command = command}

\* the step resolves the block at hand to a replacement text
BlockResolved == render.pc = "formatter" /\ render'.pc = "capture"

\* the step ends the rendering with the error of a formatter
BlockFailed ==
    /\ render.pc = "formatter" /\ render'.pc = "done"
    /\ render.k <= Len(name_formatters)

\* the step ends the rendering because no formatter accepts the command
BlockUnknown ==
    /\ render.pc = "formatter" /\ render'.pc = "done"
    /\ render.k > Len(name_formatters)

\* C15: when the patterns of several registered formatters accept a command,
\* only the earliest-registered one is invoked and its result is the
\* replacement text: a resolved or failed block has called replacement_text
\* of the first accepting formatter and of no other, once.
C15_EarliestFormatterWins ==
    [][(BlockResolved \/ BlockFailed) =>
          LET first == Min(Accepting(render.actual_command))
              t == replacement_text(name_formatters[first], render.actual_command,
                                    render.info)
          IN  /\ Accepting(render.actual_command) # {}
              /\ render'.invoked =
                    Append(render.invoked, [formatter |-> name_formatters[first],
                                            command |-> render.actual_command])
              /\ Len(render'.invoked) =
                    Cardinality(Parts(render', TRUE)) + (IF BlockFailed THEN 1 ELSE 0)
              /\ BlockResolved <=> t.ok
              /\ BlockResolved =>
                    render'.final_string[Len(render'.final_string)].text
                        = (IF t.val # <<>> THEN render.command_modifier ELSE <<>>) \o t.val
    ]_vars

\* C15 witness: {name} was rendered by a registry in which ShadowingName is
\* registered before FormatName; only ShadowingName was called and its
\* text is the result.
C15_Witness ==
    /\ render.pc = "done"
    /\ name_formatters = <<"ShadowingName", "FormatName">>
    /\ render.format_string = <<"{", "n", "a", "m", "e", "}">>
    /\ render.invoked = <<[formatter |-> "ShadowingName",
                           command |-> <<"n", "a", "m", "e">>]>>
    /\ render.result = Ok(ShadowingText)

FormatFailed(command) ==
    Failure("Failed to format the file name with the given format string", command)

\* C16: if the first formatter whose pattern matches a command returns an
\* error, the rendering ends at once with that error: no later formatter is
\* called for the command, no later block is resolved (the rendering takes
\* no further step), and the result carries no text; the function that
\* run_file calls fails with the same error.
C16_FormatterErrorEndsRendering ==
    [][/\ (/\ render.pc = "formatter"
           /\ Accepting(render.actual_command) # {}
           /\ ~replacement_text(name_formatters[Min(Accepting(render.actual_command))],
                                render.actual_command, render.info).ok
           /\ render' # render) =>
             \/ render' = [render EXCEPT !.k = render.k + 1]
                   /\ render.k < Min(Accepting(render.actual_command))
             \/ /\ render.k = Min(Accepting(render.actual_command))
                /\ render'.pc = "done"
                /\ render'.result = FormatFailed(render.actual_command)
                /\ render'.result.val = <<>>
                /\ render'.final_string = render.final_string
                /\ Len(render'.invoked) = Len(render.invoked) + 1
                /\ replace_filepath_parts(render.format_string, render.info)
                      = render'.result
       /\ render.pc = "done" => render' = render
    ]_vars

\* C16 witness: FailingName is registered before FormatName, the first of
\* two blocks failed, only FailingName was called and the block after it
\* was never looked at.
C16_Witness ==
    /\ render.pc = "done"
    /\ name_formatters = <<"FailingName", "FormatName">>
    /\ render.result = FormatFailed(<<"n", "a", "m", "e">>)
    /\ render.invoked = <<[formatter |-> "FailingName",
                           command |-> <<"n", "a", "m", "e">>]>>
    /\ next_capture(render.format_string, render.end + 1).start # 0
    /\ render.final_string = <<>>

NoFormatterFor(command) ==
    Failure("There exists no formatter for the format command", command)

\* C17: if no registered formatter's pattern matches the command of a block,
\* the rendering fails with the error that names that command: nothing is
\* pushed for the block, the rendering takes no further step, and
\* new_file_path produces no path from the template.
C17_UnknownCommandFails ==
    [][/\ (render.pc = "formatter" /\ Accepting(render.actual_command) = {}
           /\ render' # render) =>
             \/ render' = [render EXCEPT !.k = render.k + 1]
                   /\ render.k <= Len(name_formatters)
             \/ /\ render.k > Len(name_formatters)
                /\ render'.pc = "done"
                /\ render'.result = NoFormatterFor(render.actual_command)
                /\ render'.final_string = render.final_string
                /\ render'.invoked = render.invoked
                /\ replace_filepath_parts(render.format_string, render.info)
                      = render'.result
                /\ ~new_file_path(render.info).ok
       /\ (render'.pc = "done" /\ render'.result.ok) =>
             \A k \in Parts(render', FALSE) :
                \A m \in 1..Len(render'.final_string[k].text) :
                   render'.final_string[k].text[m] = "{" =>
                      \A n \in (m + 1)..Len(render'.final_string[k].text) :
                         render'.final_string[k].text[n] # "}"
    ]_vars

\* C17 witness: x{foo} was rendered by a registry that holds the name
\* formatter; the result is the error that names foo.
C17_Witness ==
    /\ render.pc = "done"
    /\ render.format_string = <<"x", "{", "f", "o", "o", "}">>
    /\ \E k \in 1..Len(name_formatters) : name_formatters[k] = "FormatName"
    /\ render.result = NoFormatterFor(<<"f", "o", "o">>)
    /\ render.final_string = <<Literal(<<"x">>)>>

\* the label of a block: everything before its first ':', empty without ':'
LabelOf(inner) ==
    LET colons == {k \in 1..Len(inner) : inner[k] = ":"}
    IN  IF colons = {} THEN <<>> ELSE SubSeq(inner, 1, Min(colons) - 1)

\* the command of a block: everything after its first ':', all without ':'
CommandOf(inner) ==
    LET colons == {k \in 1..Len(inner) : inner[k] = ":"}
    IN  IF colons = {} THEN inner ELSE SubSeq(inner, Min(colons) + 1, Len(inner))

\* C18: the output of a block {label:command} is label followed by the
\* replacement text when both are non-empty, the replacement text alone
\* when the label is empty, and empty when the replacement text is empty,
\* whatever the label; the label is everything before the first ':' of the
\* block and is empty when the block has no ':'.
C18_LabelPrefixesNonEmptyText ==
    [][BlockResolved =>
          LET inner == SubSeq(render.format_string, render.start + 1, render.end - 1)
              label == LabelOf(inner)
              text == replacement_text(render'.invoked[Len(render'.invoked)].formatter,
                                       CommandOf(inner), render.info).val
              output == render'.final_string[Len(render'.final_string)]
          IN  /\ output.command
              /\ render.command_modifier = label
              /\ render.actual_command = CommandOf(inner)
              /\ (text # <<>> /\ label # <<>>) => output.text = label \o text
              /\ label = <<>> => output.text = text
              /\ text = <<>> => output.text = <<>>
    ]_vars

\* C18 witness: a{l:dup} was rendered without a duplicate counter: the block
\* with the label l gave the empty text and the result is a.
C18_Witness ==
    /\ render.pc = "done"
    /\ render.format_string = <<"a", "{", "l", ":", "d", "u", "p", "}">>
    /\ render.info.duplicate_counter = NoCounter
    /\ render.final_string = <<Literal(<<"a">>), Command(<<>>)>>
    /\ render.result = Ok(<<"a">>)

\* the blocks of a template from position k on: each the leftmost '{' that
\* has a '}' after it, up to the first such '}'
RECURSIVE BlocksFrom(_, _)
BlocksFrom(t, k) ==
    LET opens == {p \in k..Len(t) : t[p] = "{" /\ \E q \in (p + 1)..Len(t) : t[q] = "}"}
    IN  IF opens = {} THEN <<>>
        ELSE LET start == Min(opens)
                 end == Min({q \in (start + 1)..Len(t) : t[q] = "}"})
             IN  <<[start |-> start, end |-> end]>> \o BlocksFrom(t, end + 1)

\* the literal segments of a template and the given texts for its blocks,
\* in the order of the template
RECURSIVE Weave(_, _, _, _)
Weave(t, k, blocks, texts) ==
    IF blocks = <<>> THEN SubSeq(t, k, Len(t))
    ELSE SubSeq(t, k, Head(blocks).start - 1) \o Head(texts)
         \o Weave(t, Head(blocks).end + 1, Tail(blocks), Tail(texts))

\* the non-empty literal segments of a template, in order
RECURSIVE Segments(_, _, _)
Segments(t, k, blocks) ==
    LET to == IF blocks = <<>> THEN Len(t) ELSE Head(blocks).start - 1
        here == IF to >= k THEN <<SubSeq(t, k, to)>> ELSE <<>>
    IN  IF blocks = <<>> THEN here
        ELSE here \o Segments(t, Head(blocks).end + 1, Tail(blocks))

\* C19: a template without a block renders to itself (the empty template to
\* the empty string), and in general every literal segment before, between
\* and after the blocks is in the output unchanged, in its original order
\* relative to the replacement texts.
C19_LiteralsPreserved ==
    (render.pc = "done" /\ render.result.ok) =>
        LET t == render.format_string
            blocks == BlocksFrom(t, 1)
            commands == SelectSeq(render.final_string, LAMBDA part : part.command)
            literals == SelectSeq(render.final_string, LAMBDA part : ~part.command)
        IN  /\ blocks = <<>> => render.result.val = t
            /\ Len(commands) = Len(blocks)
            /\ [k \in 1..Len(literals) |-> literals[k].text] = Segments(t, 1, blocks)
            /\ render.result.val
                  = Weave(t, 1, blocks, [k \in 1..Len(commands) |-> commands[k].text])
            /\ render.result = replace_filepath_parts(t, render.info)

\* C19 witness: a{l:dup}x was rendered with the duplicate counter 1 to al1x:
\* a literal before and a literal after the replacement text.
C19_Witness ==
    /\ render.pc = "done"
    /\ render.final_string = <<Literal(<<"a">>), Command(<<"l", "1">>), Literal(<<"x">>)>>
    /\ render.result = Ok(<<"a", "l", "1", "x">>)

Registered(formatter) ==
    \E k \in 1..Len(name_formatters) : name_formatters[k] = formatter

\* the block at hand is {name} or {n} and is rendered to the cleaned name
NameRendered ==
    /\ render'.pc = "capture"
    /\ render'.final_string[Len(render'.final_string)]
          = Command((IF render.info.cleaned_name # <<>> THEN LabelOf(
                        SubSeq(render.format_string, render.start + 1, render.end - 1))
                     ELSE <<>>) \o render.info.cleaned_name)

\* C20 as stated: for every registry that contains the name formatter,
\* whatever else is registered and in whatever order, a block {name} or {n}
\* is rendered to exactly the cleaned name of the invocation.
C20_NameIsCleanedName ==
    [][(/\ render.pc = "formatter" /\ render'.pc # "formatter"
        /\ NAME_FORMAT(render.actual_command)
        /\ Registered("FormatName")) => NameRendered]_vars

\* C20 amended: the same, for every registry in which no formatter
\* registered before the name formatter accepts the command; the formatters
\* of PhotoSort accept neither name nor n, so it holds for every registry
\* of them in every order.
C20_NameIsCleanedNameUnlessShadowed ==
    [][(/\ render.pc = "formatter" /\ render'.pc # "formatter"
        /\ NAME_FORMAT(render.actual_command)
        /\ Registered("FormatName")
        /\ name_formatters[Min(Accepting(render.actual_command))] = "FormatName")
          => NameRendered]_vars

\* C20 witness: {name} was rendered to the cleaned name c by a registry in
\* which FormatName comes after another formatter.
C20_Witness ==
    /\ render.pc = "done"
    /\ name_formatters = <<"FormatDuplicate", "FormatName">>
    /\ render.format_string = <<"{", "n", "a", "m", "e", "}">>
    /\ render.info.cleaned_name = <<"c">>
    /\ render.result = Ok(<<"c">>)

(***************************************************************************)
(* The claims about file_action, on the runs of file_action.               *)
(***************************************************************************)
\* C25: whenever the target path exists when file_action checks it,
\* file_action returns an error and changes nothing on the filesystem: no
\* folder is created, nothing is moved, copied or linked and the source is
\* untouched, for every action and in a dry run as well.
C25_ExistingTargetIsAnError ==
    [][(act.pc = "exists" /\ exists(act.tree, act.target)) =>
          /\ act'.pc = "done"
          /\ act'.result = "err"
          /\ act'.tree = act.tree
          /\ act'.source = act.source
          /\ act'.partial = act.partial
          /\ act'.log = act.log
    ]_vars

\* C25 witness: a dry run of a hard link with mkdir set has ended with an
\* error on the existing target d/f.
C25_Witness ==
    /\ act.pc = "done"
    /\ act.result = "err"
    /\ settings.action_type = [mode |-> "DryRun", action |-> "Hardlink"]
    /\ settings.mkdir
    /\ exists(act.before, act.target)
    /\ act.tree = act.before
    /\ act.source

\* C26: in a dry run file_action changes nothing on the filesystem: it
\* creates no folder, also with mkdir set and the parent folder missing,
\* and moves, copies or links no file, for every action; when it succeeds
\* it has logged the action it would take, and the folder it would create.
C26_DryRunChangesNothing ==
    settings.action_type.mode = "DryRun" =>
        /\ act.tree = act.before
        /\ act.source
        /\ ~act.partial
        /\ act.pc \in {"exists", "parent", "action", "done"}
        /\ (act.pc = "done" /\ act.result = "ok") =>
              /\ act.log[Len(act.log)] = <<settings.action_type.action, act.target>>
              /\ ~exists(act.before, parent(act.target)) =>
                    act.log[1] = <<"[Mkdir]", parent(act.target)>>

\* C26 witness: a dry run of a move with mkdir set, into a target directory
\* without the folder d, has succeeded; the folder is still missing.
C26_Witness ==
    /\ act.pc = "done"
    /\ act.result = "ok"
    /\ settings.action_type = [mode |-> "DryRun", action |-> "Move"]
    /\ settings.mkdir
    /\ act.tree = {<<>>}
    /\ act.log = << <<"[Mkdir]", parent(act.target)>>, <<"Move", act.target>> >>

Written(a) == exists(a.tree, a.target) /\ ~a.partial

\* C30: the move action removes the source only when the target has been
\* written: by the rename, or after the fallback copy has succeeded; when
\* the fallback copy fails (a length that differs included, after which the
\* target is gone again) the source still exists and the action returns an
\* error.
C30_MoveKeepsSourceUntilWritten ==
    [][settings.action_type = [mode |-> "Execute", action |-> "Move"] =>
          /\ ~act'.source => Written(act')
          /\ (act.source /\ ~act'.source) =>
                \/ act.pc = "action" /\ act'.result = "ok"
                \/ act.pc = "remove" /\ Written(act) /\ act'.result = "ok"
          /\ act'.pc = "remove" => (act.pc = "times" /\ Written(act))
          /\ (act.pc \in {"copy", "times"} /\ act'.pc = "done") =>
                /\ act'.result = "err"
                /\ act'.source
          /\ (act.pc = "copy" /\ act'.pc = "done" /\ act'.tree = act.tree) =>
                ~exists(act'.tree, act'.target)
    ]_vars

\* C30 witness: the rename failed, the copy wrote a part of the target and
\* failed; the move has returned an error and the source exists.
C30_Witness ==
    /\ settings.action_type = [mode |-> "Execute", action |-> "Move"]
    /\ act.pc = "done"
    /\ act.from = "move"
    /\ act.result = "err"
    /\ act.partial
    /\ act.source

\* the template begins with a block {bracket?argument}, {bracketed?argument}
\* or {b?argument}, with or without a label, whose argument BracketedFormat
\* knows
BracketBlockFirst(t) ==
    /\ BlocksFrom(t, 1) # <<>>
    /\ BlocksFrom(t, 1)[1].start = 1
    /\ LET command == CommandOf(SubSeq(t, 2, BlocksFrom(t, 1)[1].end - 1))
       IN  \E h \in {<<"b", "r", "a", "c", "k", "e", "t">>,
                     <<"b", "r", "a", "c", "k", "e", "t", "e", "d">>, <<"b">>},
              a \in BracketArguments : command = h \o <<"?">> \o a

\* C27: on an invocation without bracket info the command {bracket?...}
\* with any of the arguments seq, index, name, name_first, first, name_last,
\* last, len, length, group, grp, num renders to the empty string (also
\* under a label) and returns no error: the rest of the template is
\* rendered as if the block were not there.
C27_BracketOnPlainFileIsEmpty ==
    [][(/\ name_formatters = main_formatters
        /\ ~render.info.bracket_info.some
        /\ BracketBlockFirst(render.format_string)) =>
          /\ (render.pc = "formatter" /\ render'.pc # "formatter"
              /\ render.final_string = <<>>) =>
                /\ render'.pc = "capture"
                /\ render'.final_string = <<Command(<<>>)>>
                /\ render'.invoked = <<[formatter |-> "BracketedFormat",
                                        command |-> render.actual_command]>>
          /\ render'.pc = "done" =>
                render'.result
                   = replace_filepath_parts(
                        SubSeq(render.format_string,
                               BlocksFrom(render.format_string, 1)[1].end + 1,
                               Len(render.format_string)),
                        render.info)
    ]_vars

\* C27 witness: {l:bracketed?name_last}{name} was rendered for a file
\* without bracket info to its cleaned name c.
C27_Witness ==
    /\ render.pc = "done"
    /\ name_formatters = main_formatters
    /\ ~render.info.bracket_info.some
    /\ render.format_string =
          <<"{", "l", ":", "b", "r", "a", "c", "k", "e", "t", "e", "d", "?",
            "n", "a", "m", "e", "_", "l", "a", "s", "t", "}",
            "{", "n", "a", "m", "e", "}">>
    /\ render.final_string = <<Command(<<>>), Command(<<"c">>)>>
    /\ render.result = Ok(<<"c">>)

(***************************************************************************)
(* The claims about the order of processing, on the runs of main().        *)
(***************************************************************************)
\* C28: single-threaded, run_file is invoked on the files strictly one after
\* another in the order of their discovery, with bracket mode on as well
\* and for every mix of bracketed, plain and unreadable files: no file is
\* processed after a file that was discovered later.
C28_SingleThreadedInDiscoveryOrder ==
    ~MultiThreaded =>
        /\ \A a, b \in Jobs : a < b => dispatched[a].file < dispatched[b].file
        /\ \A w \in 1..MaxThreads : exec[w] = Idle

(***************************************************************************)
(* The claims about run_file, on the runs of run_files_in_folder.          *)
(***************************************************************************)
\* the job that run_file is working on, and the jobs it has returned from
Running == {j \in Jobs : exec[0].pc # "idle" /\ exec[0].job = j}
Finished == {j \in Jobs : outcome[j].status \in {"ok", "err"}}

\* the info of a job at the value c of run_file's dup_counter
InfoAt(j, c) == file_name_info(dispatched[j], IF c = 0 THEN NoCounter ELSE c)

\* the target path of a template: its '/'-separated components rendered,
\* without '/' and '\', and without the components that are ".." or empty
PathOf(template, info) ==
    LET parts == Split(template, "/")
        rendered == [k \in DOMAIN parts |->
                        Remove(Remove(replace_filepath_parts(parts[k], info).val, "/"),
                               "\\")]
    IN  SelectSeq(rendered, LAMBDA c : c # <<".", ".">> /\ c # <<>>)

\* the template of a job by the priority bracketed, unknown, dated, no date
TemplateOf(j) ==
    IF dispatched[j].bracket_info.some /\ settings.bracketed_file_format # None
    THEN settings.bracketed_file_format
    ELSE IF is_unknown_file(dispatched[j]) THEN settings.unknown_file_format
    ELSE IF InfoAt(j, 0).date.some THEN settings.file_format
    ELSE settings.nodate_file_format

UnknownExtension(k) == ~is_valid_extension(extension(files[k].file_name))

ExifDate(file) == IF file.exif_time.ok THEN file.exif_time.val ELSE NoDate

NameDate(file) ==
    LET good == {k \in 1..Len(file.name_time) : file.name_time[k].ok}
    IN  IF good = {} THEN NoDate ELSE file.name_time[Min(good)].date

NameError(file) == \E k \in 1..Len(file.name_time) :
                      /\ ~file.name_time[k].ok
                      /\ \A m \in 1..(k - 1) : ~file.name_time[m].ok

\* the first component of the path of a file with this date, in the runs
\* whose formats begin with D_{date} and N_
DatePrefix(date) ==
    IF date.some THEN <<"D", "_">> \o date.Y ELSE <<"N", "_">>

DateInPath ==
    settings.file_format = DatedFormat /\ settings.nodate_file_format = NoDateFormat

RendersDotDot(j, c) ==
    \E k \in DOMAIN Split(TemplateOf(j), "/") :
       replace_filepath_parts(Split(TemplateOf(j), "/")[k], InfoAt(j, c))
          = Ok(<<".", ".">>)

\* C24: a component of the template that renders to ".." is left out of the
\* target path and the rendering succeeds; the target path is the target
\* directory followed by the rendered components that are not "..", none
\* of which holds a '/' or a '\'.
C24_DotDotComponentOmitted ==
    /\ \A j \in Running :
          LET path == exec[0].new_path
          IN  /\ path = PathOf(TemplateOf(j), InfoAt(j, exec[0].dup_counter))
              /\ \A k \in 1..Len(path) :
                    /\ path[k] # <<".", ".">>
                    /\ \A m \in 1..Len(path[k]) : path[k][m] \notin {"/", "\\"}
    /\ \A j \in Finished :
          (analyze(files[dispatched[j].file]).ok /\ RendersDotDot(j, 0)) =>
             /\ outcome[j].target # <<>> \/ PathOf(TemplateOf(j), InfoAt(j, 0)) = <<>>
             /\ \A k \in 1..Len(outcome[j].target) :
                   outcome[j].target[k] # <<".", ".">>

\* C24 witness: with "{name}/x{dup}" the file IMG_...jpg, whose name renders
\* to "..", was moved to x in the target directory.
C24_Witness ==
    /\ Len(files) = 1
    /\ settings.file_format =
          <<"{", "n", "a", "m", "e", "}", "/", "x", "{", "d", "u", "p", "}">>
    /\ Len(dispatched) = 1
    /\ InfoAt(1, 0).cleaned_name = <<".", ".">>
    /\ outcome = <<[status |-> "ok", target |-> << <<"x">> >>]>>
    /\ fs = {<<>>, << <<"x">> >>}

\* the template of the job renders to the same path at every counter
SamePathAtEveryCounter(j) ==
    \A c \in 1..(MaxDupCounter + 1) :
       PathOf(TemplateOf(j), InfoAt(j, c)) = PathOf(TemplateOf(j), InfoAt(j, 0))

\* C29: the duplicate loop of a file ends only at a counter whose path does
\* not exist.  While the job's template renders to the same path at every
\* counter and the path exists, the loop goes on: the path stays, no file
\* action is done for the file and, single-threaded, no later file is
\* looked at.
C29_LoopEndsOnlyOnFreePath ==
    [][/\ (exec[0].pc = "exists" /\ exec'[0].pc = "action") =>
             ~exists(fs, exec[0].new_path)
       /\ (/\ exec[0].pc = "exists"
           /\ exists(fs, exec[0].new_path)
           /\ SamePathAtEveryCounter(exec[0].job)) =>
             /\ exec'[0].pc = "exists"
             /\ exec'[0].job = exec[0].job
             /\ exec'[0].new_path = exec[0].new_path
             /\ exec'[0].dup_counter = exec[0].dup_counter + 1
             /\ fs' = fs
             /\ outcome' = outcome
             /\ dispatched' = dispatched
             /\ folder' = folder
    ]_vars

\* C29 witness: with "{name}" the first of two files IMG_1.jpg is at counter
\* 3 of its loop on the existing path 1; the second file waits.
C29_Witness ==
    /\ settings.file_format = <<"{", "n", "a", "m", "e", "}">>
    /\ Len(files) = 2
    /\ exec[0].pc = "exists"
    /\ exec[0].job = 1
    /\ exec[0].dup_counter = 3
    /\ exec[0].new_path = << <<"1">> >>
    /\ exists(fs, exec[0].new_path)
    /\ folder.n = 2
    /\ Len(dispatched) = 1

====
